---------------------------- MODULE Spec2Model ----------------------------
(***************************************************************************)
(* A model of FirefoxDebugSession, the session orchestrator of the Firefox *)
(* debug adapter: start(), attachDescriptor(), attachThread() with its     *)
(* thread-state handler, attachSource(), stop() and the socket close       *)
(* handler.  Every `await` of the source is a suspension point: a handler  *)
(* is a sequence of atomic actions, one per synchronous segment, and its   *)
(* position is a program counter (ipc, tapc, ppc, rpc, spc).               *)
(***************************************************************************)
EXTENDS Integers, Sequences, FiniteSets, TLC

(***************************************************************************)
(* Bounds of the model.                                                    *)
(***************************************************************************)
MaxPauses == 2
MaxSessionPauses == 1
MaxHitLimit == 2
S1HitLimit == 3
S1Pauses == 5

\* The model follows one target of the attached descriptor.  The handlers of
\* different targets share no state of the session but the registries and
\* the breakpoint's hit count.
Targets == { 1 }

(***************************************************************************)
(* Static data: the configurations a session is constructed with, the      *)
(* source adapters the SourcesManager can hand out, frame locations.       *)
(***************************************************************************)

\* ParsedConfiguration, the fields FirefoxDebugSession reads.
\*   attach/launch: the attach resp. launch configuration is present
\*   detached, tmpDirs: config.launch.detached, config.launch.tmpDirs.length > 0
\*   addon: config.addon is set (an AddonManager is constructed)
Configs ==
    { c \in [ attach : BOOLEAN, launch : BOOLEAN, detached : BOOLEAN,
              tmpDirs : BOOLEAN, reloadTabs : BOOLEAN, terminate : BOOLEAN,
              addon : BOOLEAN, clearConsoleOnReload : BOOLEAN ] :
        /\ c.attach \/ c.launch
        /\ c.detached => c.launch
        /\ c.tmpDirs => c.launch
        /\ c.reloadTabs => c.attach }

\* The configurations of the general specification: a launch with a
\* temporary profile that terminates the browser, and an attach to a running
\* browser with an add-on that leaves it running.
SessionConfigs ==
    { c \in Configs :
        /\ ~c.detached /\ ~c.reloadTabs
        /\ \/ c.launch /\ ~c.attach /\ c.terminate /\ c.tmpDirs /\ ~c.addon
              /\ c.clearConsoleOnReload
           \/ c.attach /\ ~c.launch /\ ~c.terminate /\ ~c.tmpDirs /\ c.addon
              /\ ~c.clearConsoleOnReload }

\* The source actors of the model and what their SourceAdapter holds once
\* attachSource has run for them.
\* "skipped" stands for the source of /src/app.js while the user has it
\* skipped (blackboxed); the gates of the pause handler meet it.
Sources == { "bundle", "app", "lib", "eval" }

SourceAdapter(actor) ==
    CASE actor = "bundle" -> [ path |-> "/out/bundle.js", isBlackBoxed |-> FALSE,
                               introductionType |-> "scriptElement",
                               url |-> "http://h/bundle.js" ]
      [] actor = "app"    -> [ path |-> "/src/app.js", isBlackBoxed |-> FALSE,
                               introductionType |-> "scriptElement",
                               url |-> "http://h/app.js" ]
      [] actor = "lib"    -> [ path |-> "/lib/a.js", isBlackBoxed |-> TRUE,
                               introductionType |-> "scriptElement",
                               url |-> "http://h/lib/a.js" ]
      [] actor = "skipped" -> [ path |-> "/src/app.js", isBlackBoxed |-> TRUE,
                               introductionType |-> "scriptElement",
                               url |-> "http://h/app.js" ]
      [] OTHER            -> [ path |-> "", isBlackBoxed |-> FALSE,
                               introductionType |-> "debugger eval",
                               url |-> "" ]

\* A frame's `where`: a source actor and a position (line and column).
NoWhere == [ actor |-> "", pos |-> 0 ]

\* applySourceMapToFrame: frames of the generated bundle are rewritten to the
\* original source, position by position; other frames are left alone.
applySourceMapToFrame(where) ==
    IF where.actor = "bundle" THEN [ actor |-> "app", pos |-> where.pos ]
    ELSE where

\* The one breakpoint of the model, once set, is realized in /src/app.js at
\* position 1 (its actualLocation).
BpLocation == [ path |-> "/src/app.js", pos |-> 1 ]

(***************************************************************************)
(* State.                                                                  *)
(***************************************************************************)
VARIABLES
    config,                   \* the ParsedConfiguration of the constructor
    ipc,                      \* position of start() and of its onInit handler
    startPromise,             \* "pending", "resolved" or "rejected"
    processDescriptorMode,    \* "undefined", "true" or "false"
    reloadTabs,
    firefoxProc,              \* this.firefoxProc is set
    firefoxDebugSocketClosed,
    addonsActor,              \* this.addonsActor is set
    spc,                      \* position of stop()
    stopLog,                  \* what stop() did: kill, install, disconnect, remove
    descriptor,               \* the DescriptorAdapter: "none", "attached", "disposed"
    descriptors,              \* Registry<DescriptorAdapter>, its ids
    adapterThreads,           \* DescriptorAdapter.threads
    threads,                  \* Registry<ThreadAdapter>, its ids
    threadsByTargetActorName,
    frames,                   \* Registry<FrameAdapter>: <<thread, pause>> pairs
    variablesProviders,       \* Registry<VariablesProvider>: <<thread, pause>> pairs
    engTarget,                \* the browser's targets: "unborn", "alive", "dead"
    engPaused,                \* the browser's thread of a target is paused
    resumeReq,                \* a resume request to the thread actor is in flight
    epoch,                    \* the number of pauses of a target's thread so far
    tapc,                     \* position of the onTargetAvailable handler
    tform,                    \* the target form an onTargetAvailable handler holds
    threadAdapter,            \* ThreadAdapter fields: type, threadPausedReason
    ppc,                      \* position of the thread-state handler of a pause
    pev,                      \* the paused event that handler holds
    pz,                       \* what the handler did for the latest pause
    rpc,                      \* position of the thread-state handler of a resume
    rinfo,                    \* the pause that resume ended
    breakpointInfo,           \* the BreakpointInfo of BpLocation
    gateCount,                \* pauses that reached the hit-count gate
    dap,                      \* summary of the events given to sendEvent
    launched,                 \* connectToFirefox called launchFirefox
    root,                     \* the root actor proxy: subscriptions, tabs, listTabs requests
    tabHandler,               \* the onTabOpened handler of each tab
    browserTabs,              \* the tabs that are open in the browser
    lastActiveThreadId,       \* this.lastActiveThreadId
    activeThread,             \* what the latest getActiveThread call returned
    nextId,                   \* Registry.nextId of the thread registry
    source,                   \* a SourceAdapter and the requests to its new actor
    descriptorActor,          \* a DescriptorActorProxy: its cache and its requests
    pendingRequests,          \* a PendingRequests queue and what became of its requests
    input,                    \* the inputs a scenario draws when it starts
    output,                   \* what the function of a scenario returned
    threadActor               \* a ThreadActorProxy of part_002: its queues and its requests

\* The state of the parts of the program that the session's handlers leave
\* alone: the active thread, and the inputs of the scenarios.
componentVars == << lastActiveThreadId, activeThread, nextId, source,
                   descriptorActor, pendingRequests, input, output, threadActor >>

tabVars == << root, tabHandler, browserTabs >>

vars == << config, ipc, startPromise, processDescriptorMode, reloadTabs,
           firefoxProc, firefoxDebugSocketClosed, addonsActor, spc, stopLog,
           descriptor, descriptors, adapterThreads, threads,
           threadsByTargetActorName, frames, variablesProviders, engTarget,
           engPaused, resumeReq, epoch, tapc, tform, threadAdapter, ppc, pev,
           pz, rpc, rinfo, breakpointInfo, gateCount, dap, launched,
           tabVars, componentVars >>

sessionVars == << config, ipc, startPromise, processDescriptorMode, reloadTabs,
                  firefoxProc, firefoxDebugSocketClosed, addonsActor, spc,
                  stopLog, descriptor, descriptors, adapterThreads,
                  threadsByTargetActorName, frames, variablesProviders,
                  engTarget, engPaused, resumeReq, epoch, tapc, tform,
                  threadAdapter, ppc, pev, pz, rpc, rinfo, breakpointInfo,
                  gateCount, dap, launched, tabVars >>

startVars == << ipc, startPromise, processDescriptorMode, reloadTabs, addonsActor >>
stopVars == << spc, stopLog >>
descriptorVars == << descriptor, descriptors, adapterThreads >>
registryVars == << threads, threadsByTargetActorName, frames, variablesProviders >>
engineVars == << engTarget, engPaused, resumeReq, epoch >>
targetVars == << tapc, tform, threadAdapter >>
pauseVars == << ppc, pev, pz >>
resumeVars == << rpc, rinfo >>
breakpointVars == << breakpointInfo, gateCount >>

(***************************************************************************)
(* The events given to sendEvent, and the summary kept of them.            *)
(***************************************************************************)
InitializedEvent == [ type |-> "initialized", threadId |-> 0, reason |-> "" ]
TerminatedEvent == [ type |-> "terminated", threadId |-> 0, reason |-> "" ]
OutputEvent == [ type |-> "output", threadId |-> 0, reason |-> "" ]
ThreadEvent(reason, id) == [ type |-> "thread", threadId |-> id, reason |-> reason ]
StoppedEvent(reason, id) ==
    [ type |-> "stopped", threadId |-> id, reason |-> reason,
      allThreadsStopped |-> FALSE ]
ContinuedEvent(id) == [ type |-> "continued", threadId |-> id, reason |-> "" ]
Event(name, id) == [ type |-> name, threadId |-> id, reason |-> "" ]

Cap(n) == IF n < 2 THEN n + 1 ELSE n

NoEvents ==
    [ initialized |-> 0, terminated |-> 0, output |-> 0,
      started |-> [ t \in Targets |-> 0 ],
      threadStarted |-> [ t \in Targets |-> 0 ],
      exited |-> [ t \in Targets |-> 0 ],
      threadExited |-> [ t \in Targets |-> 0 ],
      stopped |-> [ t \in Targets |-> 0 ],
      continued |-> [ t \in Targets |-> 0 ],
      newSource |-> [ t \in Targets |-> 0 ],
      stopReason |-> [ t \in Targets |-> "" ],
      allThreadsStopped |-> FALSE,
      stoppedOpen |-> [ t \in Targets |-> FALSE ],
      early |-> [ t \in Targets |-> FALSE ],
      late |-> [ t \in Targets |-> FALSE ],
      afterStop |-> FALSE ]

\* this.sendEvent(ev): d is the summary so far.  `early' records a stopped,
\* continued or newSource event of a thread sent before its thread started
\* event, `late' one sent after its thread exited event, `afterStop' any
\* event sent after stop() has returned.
sendEvent(d, ev) ==
    LET t == ev.threadId
        d1 == [ d EXCEPT !.afterStop = @ \/ spc = "done" ]
        d2 == IF ev.type \in { "stopped", "continued", "newSource" }
              THEN [ d1 EXCEPT !.late[t] = @ \/ d.exited[t] > 0,
                               !.early[t] = @ \/ d.started[t] = 0
                                              \/ d.threadStarted[t] = 0 ]
              ELSE d1
    IN  CASE ev.type = "initialized" -> [ d2 EXCEPT !.initialized = Cap(@) ]
          [] ev.type = "terminated" -> [ d2 EXCEPT !.terminated = Cap(@) ]
          [] ev.type = "output" -> [ d2 EXCEPT !.output = 1 ]
          [] ev.type = "thread" /\ ev.reason = "started" ->
                [ d2 EXCEPT !.started[t] = Cap(@) ]
          [] ev.type = "thread" /\ ev.reason = "exited" ->
                [ d2 EXCEPT !.exited[t] = Cap(@), !.stoppedOpen[t] = FALSE ]
          [] ev.type = "threadStarted" -> [ d2 EXCEPT !.threadStarted[t] = Cap(@) ]
          [] ev.type = "threadExited" -> [ d2 EXCEPT !.threadExited[t] = Cap(@) ]
          [] ev.type = "stopped" ->
                [ d2 EXCEPT !.stopped[t] = @ + 1, !.stopReason[t] = ev.reason,
                            !.allThreadsStopped = @ \/ ev.allThreadsStopped,
                            !.stoppedOpen[t] = TRUE ]
          [] ev.type = "continued" ->
                [ d2 EXCEPT !.continued[t] = @ + 1, !.stoppedOpen[t] = FALSE ]
          [] ev.type = "newSource" -> [ d2 EXCEPT !.newSource[t] = 1 ]
          [] OTHER -> d2

\* sendThreadStartedEvent / sendThreadExitedEvent: the DAP thread event, then
\* the custom event for the Loaded Scripts Explorer.
sendThreadStartedEvent(d, id) ==
    sendEvent(sendEvent(d, ThreadEvent("started", id)), Event("threadStarted", id))

sendThreadExitedEvent(d, id) ==
    sendEvent(sendEvent(d, ThreadEvent("exited", id)), Event("threadExited", id))

\* sendStoppedEvent with a classification of the reason types.
sendStoppedEventClassified(d, id, reason) ==
    LET pauseType == CASE reason = "exception" -> "exception"
                       [] reason = "breakpoint" -> "breakpoint"
                       [] reason = "debuggerStatement" -> "debugger statement"
                       [] OTHER -> "interrupt"
    IN  sendEvent(d, StoppedEvent(pauseType, id))

\* sendStoppedEvent: the pause type is the engine's reason type, 'interrupt'
\* when there is no reason.
sendStoppedEvent(d, id, reason) ==
    LET pauseType == IF reason = "undefined" THEN "interrupt" ELSE reason
    IN  sendEvent(d, StoppedEvent(pauseType, id))

\* sendNewSourceEvent: only for a source with a URL that is no javascript: URL.
sendNewSourceEvent(d, id, sourceUrl) ==
    IF sourceUrl # "" /\ sourceUrl # "javascript:" THEN sendEvent(d, Event("newSource", id))
    ELSE d

RECURSIVE sendThreadExitedEvents(_, _)
sendThreadExitedEvents(d, S) ==
    IF S = {} THEN d
    ELSE LET t == CHOOSE x \in S : TRUE
         IN  sendThreadExitedEvents(sendThreadExitedEvent(d, t), S \ { t })

(***************************************************************************)
(* The state after construction.                                           *)
(***************************************************************************)
NoForm == [ isFallbackExtensionDocument |-> FALSE, addonId |-> "", url |-> "",
            targetType |-> "", parentInnerWindowId |-> FALSE,
            relatedDocumentInnerWindowId |-> FALSE, contentScriptTarget |-> FALSE ]

NoPause == [ why |-> "undefined", actors |-> FALSE, where |-> NoWhere,
             start |-> "" ]

\* No getActiveThread call has returned since the registry last changed.
NoCall == [ called |-> FALSE, last |-> 0, thread |-> 0 ]

\* No source has been attached: nothing was sent to a source actor.
NoSource == [ attached |-> FALSE, isBlackBoxed |-> FALSE, setBlackbox |-> << >> ]

\* A DescriptorActorProxy after construction: nothing cached (0 stands for
\* no watcher), nothing requested.  calls, errors, returned and overlap
\* describe its callers: the getWatcher calls so far, the error responses,
\* the watchers the calls returned, and whether a call was made while
\* another was waiting for its response.
NewDescriptorActor ==
    [ cache |-> 0, requests |-> 0, pending |-> 0, created |-> 0, calls |-> 0,
      errors |-> 0, returned |-> {}, overlap |-> FALSE, event |-> "" ]

\* A PendingRequests queue after construction, no request made so far.
\* enqueued counts the requests, settled is the sequence of the settlements
\* as << request, "resolved" or "rejected" >>, misses counts the
\* resolveOne and rejectOne calls that found the queue empty.
NewPendingRequests ==
    [ queue |-> << >>, enqueued |-> 0, settled |-> << >>, misses |-> 0 ]

\* The ThreadActorProxy of part_002 after construction: nothing pending,
\* no request before the server.  settledBy: for every promise that was
\* settled, the promise whose request the settling response answered.
NewThreadActor ==
    [ pendingSetBreakpointRequests |-> NewPendingRequests,
      pendingSourceRequests |-> NewPendingRequests,
      pendingFrameRequests |-> NewPendingRequests,
      requests |-> << >>, settledBy |-> {} ]

\* The tabs the browser may open.
MaxTabs == 2
Tabs == 1..MaxTabs

\* The root actor proxy after construction: no subscription to tabOpened and
\* tabListChanged, no tab known, no listTabs request pending or on the wire.
\* armed: the browser announces a change of its tab list once after it has
\* answered a listTabs request.  initResolved: the fetchTabs() of onInit has
\* resolved.  sent counts the listTabs requests of fetchTabs(), resolved the
\* fetchTabs() promises resolved, scheduled the timers that will send
\* listTabs again.  proxies: the proxy of every known tab, named by the
\* number of the answer that created it, 0 for a tab that is not known.
\* last: what the proxy did last; answer, opened, closed: the tabs of the
\* last answer to listTabs and the tabOpened and tabClosed events it gave.
NewRoot ==
    [ subscribed |-> FALSE, tabs |-> {}, pendingTabsRequests |-> << >>,
      listTabs |-> 0, armed |-> FALSE, initResolved |-> FALSE, sent |-> 0,
      resolved |-> 0, scheduled |-> 0, proxies |-> [ tab \in Tabs |-> 0 ],
      last |-> "none", answer |-> {}, opened |-> << >>, closed |-> << >> ]

\* The onTabOpened handler of a tab that was not reported yet.  first: the
\* tab was reported before the fetchTabs() of onInit resolved.
NoTabHandler == [ pc |-> "none", reloads |-> 0, attached |-> FALSE, first |-> FALSE ]

\* The whole-session specifications draw their inputs step by step.
NoInput == [ scenario |-> "session" ]

\* No function of a scenario has returned.
NoOutput == [ returned |-> FALSE ]

\* The state after construction, with one of the given inputs to come.
InitOf(cfgs, inputs) ==
    /\ config \in cfgs
    /\ ipc = "constructed"
    /\ startPromise = "pending"
    /\ processDescriptorMode = "undefined"
    /\ reloadTabs = FALSE
    /\ firefoxProc = FALSE
    /\ firefoxDebugSocketClosed = FALSE
    /\ addonsActor = FALSE
    /\ spc = "idle"
    /\ stopLog = [ kill |-> 0, install |-> 0, disconnect |-> 0, remove |-> 0 ]
    /\ descriptor = "none"
    /\ descriptors = {}
    /\ adapterThreads = {}
    /\ threads = {}
    /\ threadsByTargetActorName = {}
    /\ frames = {}
    /\ variablesProviders = {}
    /\ engTarget = [ t \in Targets |-> "unborn" ]
    /\ engPaused = [ t \in Targets |-> FALSE ]
    /\ resumeReq = [ t \in Targets |-> FALSE ]
    /\ epoch = [ t \in Targets |-> 0 ]
    /\ tapc = [ t \in Targets |-> "none" ]
    /\ tform = [ t \in Targets |-> NoForm ]
    /\ threadAdapter = [ t \in Targets |->
                           [ type |-> "", threadPausedReason |-> "undefined" ] ]
    /\ ppc = [ t \in Targets |-> "idle" ]
    /\ pev = [ t \in Targets |-> NoPause ]
    /\ pz = [ t \in Targets |-> [ resumes |-> 0, stops |-> 0, found |-> FALSE,
                                  blackBoxed |-> FALSE, debuggerEval |-> FALSE,
                                  ord |-> 0 ] ]
    /\ rpc = [ t \in Targets |-> "idle" ]
    /\ rinfo = [ t \in Targets |-> [ epoch |-> 0, had |-> FALSE ] ]
    /\ breakpointInfo = [ verified |-> FALSE, hitLimit |-> 0, hitCount |-> 0 ]
    /\ gateCount = 0
    /\ dap = NoEvents
    /\ launched = FALSE
    /\ root = NewRoot
    /\ tabHandler = [ tab \in Tabs |-> NoTabHandler ]
    /\ browserTabs = {}
    /\ lastActiveThreadId = 0
    /\ activeThread = NoCall
    /\ nextId = 1
    /\ source = NoSource
    /\ descriptorActor = NewDescriptorActor
    /\ pendingRequests = NewPendingRequests
    /\ threadActor = NewThreadActor
    /\ input \in inputs
    /\ output = NoOutput

InitWith(cfgs) == InitOf(cfgs, { NoInput })

Init == InitWith(SessionConfigs)

Connected == ipc \notin { "constructed", "failed" }
SocketOpen == Connected /\ ~firefoxDebugSocketClosed

(***************************************************************************)
(* start(): connectToFirefox, the socket close handler, onInit.            *)
(***************************************************************************)

\* connectToFirefox without the fallback: a failed connect always throws.
connectToFirefoxNoFallback(cfg, connectOk, procReturned, socketOk) ==
    IF cfg.attach
    THEN [ socket |-> connectOk, reloadTabs |-> connectOk /\ cfg.reloadTabs,
           firefoxProc |-> FALSE, launched |-> FALSE ]
    ELSE [ socket |-> socketOk, reloadTabs |-> FALSE,
           firefoxProc |-> procReturned /\ ~cfg.detached, launched |-> TRUE ]

\* connectToFirefox that keeps the process of a detached launch as well.
connectToFirefoxKeepingDetached(cfg, connectOk, procReturned, socketOk) ==
    IF cfg.attach /\ connectOk
    THEN [ socket |-> TRUE, reloadTabs |-> cfg.reloadTabs, firefoxProc |-> FALSE,
           launched |-> FALSE ]
    ELSE IF cfg.attach /\ ~cfg.launch
    THEN [ socket |-> FALSE, reloadTabs |-> FALSE, firefoxProc |-> FALSE,
           launched |-> FALSE ]
    ELSE [ socket |-> socketOk, reloadTabs |-> FALSE,
           firefoxProc |-> procReturned, launched |-> TRUE ]

\* connectToFirefox: attach if an attach configuration exists; on failure
\* fall back to the launch configuration if there is one, else throw.
\* connectOk, procReturned and socketOk are the outcomes of connect(),
\* launchFirefox() and waitForSocket().
connectToFirefox(cfg, connectOk, procReturned, socketOk) ==
    IF cfg.attach /\ connectOk
    THEN [ socket |-> TRUE, reloadTabs |-> cfg.reloadTabs, firefoxProc |-> FALSE,
           launched |-> FALSE ]
    ELSE IF cfg.attach /\ ~cfg.launch
    THEN [ socket |-> FALSE, reloadTabs |-> FALSE, firefoxProc |-> FALSE,
           launched |-> FALSE ]
    ELSE [ socket |-> socketOk, reloadTabs |-> FALSE,
           firefoxProc |-> procReturned /\ ~cfg.detached, launched |-> TRUE ]

\* start() without the InitializedEvent at its end.
StartUninitialized(connectOk, procReturned, socketOk) ==
    /\ ipc = "constructed"
    /\ LET r == connectToFirefox(config, connectOk, procReturned, socketOk)
       IN  /\ reloadTabs' = r.reloadTabs
           /\ firefoxProc' = r.firefoxProc
           /\ launched' = r.launched
           /\ IF r.socket
              THEN /\ ipc' = "waitInit"
                   /\ startPromise' = startPromise
                   /\ root' = [ root EXCEPT !.subscribed =
                                    processDescriptorMode # "true" ]
                   /\ dap' = dap
              ELSE /\ ipc' = "failed"
                   /\ startPromise' = "rejected"
                   /\ root' = root
                   /\ dap' = dap
    /\ UNCHANGED << config, tabHandler, browserTabs, componentVars, processDescriptorMode, firefoxDebugSocketClosed,
                    addonsActor, stopVars, descriptorVars, registryVars,
                    engineVars, targetVars, pauseVars, resumeVars,
                    breakpointVars >>

\* start() up to the InitializedEvent: a failed connect rejects and returns.
Start(connectOk, procReturned, socketOk) ==
    /\ ipc = "constructed"
    /\ LET r == connectToFirefox(config, connectOk, procReturned, socketOk)
       IN  /\ reloadTabs' = r.reloadTabs
           /\ firefoxProc' = r.firefoxProc
           /\ launched' = r.launched
           /\ IF r.socket
              THEN /\ ipc' = "waitInit"
                   /\ startPromise' = startPromise
                   /\ root' = [ root EXCEPT !.subscribed =
                                    processDescriptorMode # "true" ]
                   /\ dap' = sendEvent(dap, InitializedEvent)
              ELSE /\ ipc' = "failed"
                   /\ startPromise' = "rejected"
                   /\ root' = root
                   /\ dap' = dap
    /\ UNCHANGED << config, tabHandler, browserTabs, componentVars, processDescriptorMode, firefoxDebugSocketClosed,
                    addonsActor, stopVars, descriptorVars, registryVars,
                    engineVars, targetVars, pauseVars, resumeVars,
                    breakpointVars >>

\* The 'close' handler of the socket without the TerminatedEvent.
SocketClosedSilently ==
    /\ SocketOpen
    /\ firefoxDebugSocketClosed' = TRUE
    /\ UNCHANGED << config, launched, tabVars, componentVars, startVars, firefoxProc, stopVars, descriptorVars,
                    registryVars, engineVars, targetVars, pauseVars,
                    resumeVars, breakpointVars, dap >>

\* The 'close' handler of the socket, registered with once().
SocketClosed ==
    /\ SocketOpen
    /\ firefoxDebugSocketClosed' = TRUE
    /\ dap' = sendEvent(dap, TerminatedEvent)
    /\ UNCHANGED << config, launched, tabVars, componentVars, startVars, firefoxProc, stopVars, descriptorVars,
                    registryVars, engineVars, targetVars, pauseVars,
                    resumeVars, breakpointVars >>

\* this.firefoxProc.once('exit', ...): the reference is dropped.
FirefoxProcExit ==
    /\ firefoxProc
    /\ firefoxProc' = FALSE
    /\ UNCHANGED << config, launched, tabVars, componentVars, startVars, firefoxDebugSocketClosed, stopVars,
                    descriptorVars, registryVars, engineVars, targetVars,
                    pauseVars, resumeVars, breakpointVars, dap >>

Reject(p) == IF p = "pending" THEN "rejected" ELSE p
Resolve(p) == IF p = "pending" THEN "resolved" ELSE p

Traits == [ webExtensionAddonConnect : BOOLEAN, nativeLogpoints : BOOLEAN,
            supportsEnableWindowGlobalThreadActors : BOOLEAN ]

\* onInit with a version check that looks at nativeLogpoints alone.
RootInitNativeLogpointsOnly(traits) ==
    /\ ipc = "waitInit"
    /\ SocketOpen
    /\ IF ~traits.nativeLogpoints
       THEN /\ startPromise' = Reject(startPromise)
            /\ ipc' = "rejected"
            /\ UNCHANGED processDescriptorMode
       ELSE /\ processDescriptorMode' =
                   IF traits.supportsEnableWindowGlobalThreadActors
                   THEN "true" ELSE "false"
            /\ ipc' = "fetchRoot"
            /\ UNCHANGED startPromise
    /\ UNCHANGED << config, launched, tabVars, componentVars, reloadTabs, addonsActor, firefoxProc,
                    firefoxDebugSocketClosed, stopVars, descriptorVars,
                    registryVars, engineVars, targetVars, pauseVars,
                    resumeVars, breakpointVars, dap >>

\* rootActor.onInit, first segment: the version check, then fetchRoot().
RootInit(traits) ==
    /\ ipc = "waitInit"
    /\ SocketOpen
    /\ IF traits.webExtensionAddonConnect /\ ~traits.nativeLogpoints
       THEN /\ startPromise' = Reject(startPromise)
            /\ ipc' = "rejected"
            /\ UNCHANGED processDescriptorMode
       ELSE /\ processDescriptorMode' =
                   IF traits.supportsEnableWindowGlobalThreadActors
                   THEN "true" ELSE "false"
            /\ ipc' = "fetchRoot"
            /\ UNCHANGED startPromise
    /\ UNCHANGED << config, launched, tabVars, componentVars, reloadTabs, addonsActor, firefoxProc,
                    firefoxDebugSocketClosed, stopVars, descriptorVars,
                    registryVars, engineVars, targetVars, pauseVars,
                    resumeVars, breakpointVars, dap >>

\* onInit after the addon manager's part (lines 192-198 done): watchResources
\* in process descriptor mode, then resolve.
AfterSessionStarted(p) ==
    IF processDescriptorMode = "true"
    THEN [ ipc |-> "watchResources", startPromise |-> p ]
    ELSE [ ipc |-> "running", startPromise |-> Resolve(p) ]

\* onInit from line 192: the addon manager needs the addons actor.
AfterAttach ==
    IF config.addon
    THEN IF addonsActor
         THEN [ ipc |-> "sessionStarted", startPromise |-> startPromise ]
         ELSE AfterSessionStarted(Reject(startPromise))
    ELSE AfterSessionStarted(startPromise)

\* RootActorProxy.fetchTabs: the request is enqueued and listTabs is sent.
fetchTabs(r, caller) ==
    [ r EXCEPT !.pendingTabsRequests = Append(@, caller), !.listTabs = @ + 1,
               !.sent = @ + 1, !.last = "fetchTabs" ]

\* fetchRoot() has answered: the actors are stored; in process descriptor
\* mode getProcess(0) and attachDescriptor follow, else fetchTabs().
FetchRootDone(hasAddons) ==
    /\ ipc = "fetchRoot"
    /\ SocketOpen
    /\ addonsActor' = hasAddons
    /\ root' = IF processDescriptorMode = "true" THEN root
               ELSE fetchTabs(root, "init")
    /\ IF processDescriptorMode = "true"
       THEN /\ ipc' = "attachDescriptor"
            /\ UNCHANGED startPromise
       ELSE LET n == IF config.addon /\ ~hasAddons
                     THEN [ ipc |-> "running",
                            startPromise |-> Resolve(Reject(startPromise)) ]
                     ELSE IF config.addon
                     THEN [ ipc |-> "sessionStarted", startPromise |-> startPromise ]
                     ELSE [ ipc |-> "running", startPromise |-> Resolve(startPromise) ]
            IN  /\ ipc' = n.ipc
                /\ startPromise' = n.startPromise
    /\ UNCHANGED << config, launched, tabHandler, browserTabs, componentVars, processDescriptorMode, reloadTabs, firefoxProc,
                    firefoxDebugSocketClosed, stopVars, descriptorVars,
                    registryVars, engineVars, targetVars, pauseVars,
                    resumeVars, breakpointVars, dap >>

\* attachDescriptor up to its last await: getWatcher, getThreadConfiguration
\* and getBreakpointList have answered, the DescriptorAdapter is constructed
\* (and registers itself), the handlers are registered, watchTargets is sent.
AttachDescriptorCreated ==
    /\ ipc = "attachDescriptor"
    /\ SocketOpen
    /\ descriptor' = "attached"
    /\ descriptors' = descriptors \cup { 1 }
    /\ ipc' = "watchTargets"
    /\ UNCHANGED << config, launched, tabVars, componentVars, startPromise, processDescriptorMode, reloadTabs,
                    addonsActor, firefoxProc, firefoxDebugSocketClosed,
                    stopVars, adapterThreads, registryVars, engineVars,
                    targetVars, pauseVars, resumeVars, breakpointVars, dap >>

\* attachDescriptor returns the adapter; onInit goes on from line 192.
AttachDescriptorDone ==
    /\ ipc = "watchTargets"
    /\ SocketOpen
    /\ ipc' = AfterAttach.ipc
    /\ startPromise' = AfterAttach.startPromise
    /\ UNCHANGED << config, launched, tabVars, componentVars, processDescriptorMode, reloadTabs, addonsActor,
                    firefoxProc, firefoxDebugSocketClosed, stopVars,
                    descriptorVars, registryVars, engineVars, targetVars,
                    pauseVars, resumeVars, breakpointVars, dap >>

\* addonManager.sessionStarted has finished.
SessionStartedDone ==
    /\ ipc = "sessionStarted"
    /\ SocketOpen
    /\ ipc' = AfterSessionStarted(startPromise).ipc
    /\ startPromise' = AfterSessionStarted(startPromise).startPromise
    /\ UNCHANGED << config, launched, tabVars, componentVars, processDescriptorMode, reloadTabs, addonsActor,
                    firefoxProc, firefoxDebugSocketClosed, stopVars,
                    descriptorVars, registryVars, engineVars, targetVars,
                    pauseVars, resumeVars, breakpointVars, dap >>

\* watchResources has answered: start() resolves.
WatchResourcesDone ==
    /\ ipc = "watchResources"
    /\ SocketOpen
    /\ ipc' = "running"
    /\ startPromise' = Resolve(startPromise)
    /\ UNCHANGED << config, launched, tabVars, componentVars, processDescriptorMode, reloadTabs, addonsActor,
                    firefoxProc, firefoxDebugSocketClosed, stopVars,
                    descriptorVars, registryVars, engineVars, targetVars,
                    pauseVars, resumeVars, breakpointVars, dap >>

\* The watcher reports targets once watchTargets has been sent, and the
\* targets report resources once watchResources has been sent.
TargetsWatched ==
    /\ SocketOpen
    /\ descriptor = "attached"
    /\ ipc \in { "watchTargets", "sessionStarted", "watchResources", "running" }

ResourcesWatched == SocketOpen /\ ipc \in { "watchResources", "running" }

(***************************************************************************)
(* attachDescriptor: the handlers of the descriptor and of its watcher.    *)
(***************************************************************************)

\* The type of the attached descriptor: the parent process descriptor in
\* process descriptor mode, a tab descriptor otherwise.
DescriptorType == IF processDescriptorMode = "true" THEN "process" ELSE "tab"

\* config.tabFilter applied to a target's URL: "in" matches an include filter
\* only, "excluded" an include and an exclude filter, "out" no include filter.
TabFilterInclude(url) == url \in { "in", "excluded" }
TabFilterExclude(url) == url = "excluded"

\* The targets the watcher reports in the general specification: a page, a
\* page the tab filter rejects, a target of the debugged add-on and a target
\* of another add-on.
TargetForms ==
    { [ NoForm EXCEPT !.url = "in", !.targetType = "frame" ],
      [ NoForm EXCEPT !.url = "out", !.targetType = "frame" ],
      [ NoForm EXCEPT !.url = "in", !.targetType = "frame", !.addonId = "active" ],
      [ NoForm EXCEPT !.url = "in", !.targetType = "frame", !.addonId = "other" ] }

\* onTargetAvailable, lines 414-429, the parts of `skip' that need no await.
\* addonIdDiffers: the target has an add-on id and there is no AddonManager,
\* or its id is not the awaited id of the debugged add-on.
SkipTarget(dtype, form, addonIdDiffers) ==
    \/ dtype = "webExtension" /\ form.isFallbackExtensionDocument
    \/ form.addonId # "" /\ addonIdDiffers
    \/ /\ dtype = "process" /\ form.addonId = "" /\ form.url # ""
       /\ ~TabFilterInclude(form.url) \/ TabFilterExclude(form.url)

\* The thread's type with iframe taking precedence over worker.
ThreadTypeIframeFirst(dtype, form) ==
    IF \/ dtype = "tab" /\ form.contentScriptTarget
       \/ dtype = "process" /\ form.targetType = "content_script"
    THEN "contentScript"
    ELSE IF dtype = "webExtension" \/ (dtype = "process" /\ form.addonId # "")
    THEN "backgroundScript"
    ELSE IF form.parentInnerWindowId THEN "iframe"
    ELSE IF form.relatedDocumentInnerWindowId THEN "worker"
    ELSE "tab"

\* onTargetAvailable, lines 441-467: the thread's type.
ThreadType(dtype, form) ==
    IF \/ dtype = "tab" /\ form.contentScriptTarget
       \/ dtype = "process" /\ form.targetType = "content_script"
    THEN "contentScript"
    ELSE IF dtype = "webExtension" \/ (dtype = "process" /\ form.addonId # "")
    THEN "backgroundScript"
    ELSE IF form.relatedDocumentInnerWindowId THEN "worker"
    ELSE IF form.parentInnerWindowId THEN "iframe"
    ELSE "tab"

\* attachThread without the announcement of the thread.
attachThreadUnannounced(t, type) ==
    /\ threadAdapter' = [ threadAdapter EXCEPT ![t] =
                            [ type |-> type, threadPausedReason |-> "undefined" ] ]
    /\ threads' = threads \cup { t }
    /\ threadsByTargetActorName' = threadsByTargetActorName \cup { t }
    /\ dap' = dap

\* attachThread: the ThreadAdapter is constructed (it registers itself in
\* the threads registry under its id), entered in threadsByTargetActorName
\* and announced; then the target's handlers are registered.
attachThread(t, type) ==
    /\ threadAdapter' = [ threadAdapter EXCEPT ![t] =
                            [ type |-> type, threadPausedReason |-> "undefined" ] ]
    /\ threads' = threads \cup { t }
    /\ threadsByTargetActorName' = threadsByTargetActorName \cup { t }
    /\ dap' = sendThreadStartedEvent(dap, t)

\* onTargetAvailable from line 430 on, `skip' being known.
TargetAvailableFrom430(t, form, skip) ==
    /\ tform' = [ tform EXCEPT ![t] = NoForm ]
    /\ IF skip
       THEN /\ tapc' = [ tapc EXCEPT ![t] = "skipped" ]
            /\ UNCHANGED << threadAdapter, threads, threadsByTargetActorName, dap >>
       ELSE /\ attachThread(t, ThreadType(DescriptorType, form))
            /\ tapc' = [ tapc EXCEPT ![t] = "awaitAttach" ]

\* watcherActor.onTargetAvailable, up to its first await: that of the add-on
\* id when the target has one and an AddonManager exists, else that of
\* attachThread.
TargetAvailable(t, form) ==
    /\ TargetsWatched
    /\ engTarget[t] = "unborn"
    /\ engTarget' = [ engTarget EXCEPT ![t] = "alive" ]
    /\ IF form.addonId # "" /\ config.addon
       THEN /\ tapc' = [ tapc EXCEPT ![t] = "awaitAddonId" ]
            /\ tform' = [ tform EXCEPT ![t] = form ]
            /\ UNCHANGED << threadAdapter, threads, threadsByTargetActorName, dap >>
       ELSE TargetAvailableFrom430(t, form, SkipTarget(DescriptorType, form, TRUE))
    /\ UNCHANGED << config, launched, tabVars, componentVars, startVars, firefoxProc, firefoxDebugSocketClosed,
                    stopVars, descriptorVars, frames, variablesProviders,
                    engPaused, resumeReq, epoch, pauseVars, resumeVars,
                    breakpointVars >>

\* onTargetAvailable after `await this.addonManager.addonId'.
TargetAvailableAddonId(t) ==
    /\ tapc[t] = "awaitAddonId"
    /\ TargetAvailableFrom430(t, tform[t],
           SkipTarget(DescriptorType, tform[t], tform[t].addonId # "active"))
    /\ UNCHANGED << config, launched, tabVars, componentVars, startVars, firefoxProc, firefoxDebugSocketClosed,
                    stopVars, descriptorVars, frames, variablesProviders,
                    engineVars, pauseVars, resumeVars, breakpointVars >>

\* onTargetAvailable after `await this.attachThread(...)'.
TargetAvailableAttached(t) ==
    /\ tapc[t] = "awaitAttach"
    /\ tapc' = [ tapc EXCEPT ![t] = "attached" ]
    /\ adapterThreads' = adapterThreads \cup { t }
    /\ UNCHANGED << config, launched, tabVars, componentVars, startVars, firefoxProc, firefoxDebugSocketClosed,
                    stopVars, descriptor, descriptors, registryVars,
                    engineVars, tform, threadAdapter, pauseVars, resumeVars,
                    breakpointVars, dap >>

\* ThreadAdapter.dispose() for the threads of S: they leave the threads
\* registry and their frames and variables providers are disposed.
DisposeThreads(S) ==
    /\ threads' = threads \ S
    /\ frames' = { f \in frames : f[1] \notin S }
    /\ variablesProviders' = { v \in variablesProviders : v[1] \notin S }

\* onTargetDestroyed without the early return for an unknown target actor.
TargetDestroyedUnknownExited(t) ==
    /\ TargetsWatched
    /\ engTarget[t] = "alive"
    /\ engTarget' = [ engTarget EXCEPT ![t] = "dead" ]
    /\ engPaused' = [ engPaused EXCEPT ![t] = FALSE ]
    /\ IF t \notin threadsByTargetActorName
       THEN /\ dap' = sendThreadExitedEvent(dap, t)
            /\ UNCHANGED << registryVars, adapterThreads >>
       ELSE /\ dap' = sendThreadExitedEvent(
                        IF threadAdapter[t].type = "tab" /\ config.clearConsoleOnReload
                        THEN sendEvent(dap, OutputEvent) ELSE dap, t)
            /\ threadsByTargetActorName' = threadsByTargetActorName \ { t }
            /\ adapterThreads' = adapterThreads \ { t }
            /\ DisposeThreads({ t })
    /\ UNCHANGED << config, launched, tabVars, componentVars, startVars, firefoxProc, firefoxDebugSocketClosed,
                    stopVars, descriptor, descriptors, resumeReq, epoch,
                    targetVars, pauseVars, resumeVars, breakpointVars >>

\* watcherActor.onTargetDestroyed.
TargetDestroyed(t) ==
    /\ TargetsWatched
    /\ engTarget[t] = "alive"
    /\ engTarget' = [ engTarget EXCEPT ![t] = "dead" ]
    /\ engPaused' = [ engPaused EXCEPT ![t] = FALSE ]
    /\ IF t \notin threadsByTargetActorName
       THEN UNCHANGED << registryVars, adapterThreads, dap >>
       ELSE /\ dap' = sendThreadExitedEvent(
                        IF threadAdapter[t].type = "tab" /\ config.clearConsoleOnReload
                        THEN sendEvent(dap, OutputEvent) ELSE dap, t)
            /\ threadsByTargetActorName' = threadsByTargetActorName \ { t }
            /\ adapterThreads' = adapterThreads \ { t }
            /\ DisposeThreads({ t })
    /\ UNCHANGED << config, launched, tabVars, componentVars, startVars, firefoxProc, firefoxDebugSocketClosed,
                    stopVars, descriptor, descriptors, resumeReq, epoch,
                    targetVars, pauseVars, resumeVars, breakpointVars >>

\* descriptorActor.onDestroyed: every thread of the adapter is announced as
\* exited and leaves threadsByTargetActorName; DescriptorAdapter.dispose()
\* disposes its threads and leaves the descriptors registry.
DescriptorDestroyed ==
    /\ SocketOpen
    /\ descriptor = "attached"
    /\ engTarget' = [ t \in Targets |->
                        IF engTarget[t] = "alive" THEN "dead" ELSE engTarget[t] ]
    /\ engPaused' = [ t \in Targets |-> FALSE ]
    /\ dap' = sendThreadExitedEvents(dap, adapterThreads)
    /\ threadsByTargetActorName' = threadsByTargetActorName \ adapterThreads
    /\ DisposeThreads(adapterThreads)
    /\ descriptor' = "disposed"
    /\ descriptors' = descriptors \ { 1 }
    /\ UNCHANGED << config, launched, tabVars, lastActiveThreadId, activeThread, nextId,
                    source, pendingRequests, input, output, threadActor, startVars, firefoxProc, firefoxDebugSocketClosed,
                    stopVars, adapterThreads, resumeReq, epoch, targetVars,
                    pauseVars, resumeVars, breakpointVars >>

\* The types of the events a descriptor actor sends.
DescriptorEvents == { "descriptor-destroyed", "descriptor-updated" }

\* handleEvent that emits 'destroyed' whatever the type of the event is.
handleEventAnyType(type) == TRUE

\* DescriptorActorProxy.handleEvent: 'destroyed' is emitted or not.
handleEvent(type) == type = "descriptor-destroyed"

\* An event of the descriptor actor reaches its proxy, which keeps the type
\* of the latest event; the other types are logged only.
DescriptorEvent(type) ==
    /\ SocketOpen
    /\ descriptor = "attached"
    /\ descriptorActor' = [ descriptorActor EXCEPT !.event = type ]
    /\ IF handleEvent(type)
       THEN DescriptorDestroyed
       ELSE UNCHANGED << sessionVars, threads, lastActiveThreadId, activeThread,
                         nextId, source, pendingRequests, input, output, threadActor >>

(***************************************************************************)
(* attachThread: the handlers of the target.                               *)
(***************************************************************************)
HandlersRegistered(t) == tapc[t] \in { "awaitAttach", "attached" }

RECURSIVE SumOver(_, _)
SumOver(f, S) ==
    IF S = {} THEN 0
    ELSE LET x == CHOOSE y \in S : TRUE IN f[x] + SumOver(f, S \ { x })

\* The pauses of the session so far.
TotalPauses == SumOver(epoch, Targets)

\* The paused events of the thread specification: a breakpoint in the
\* bundle at the position that maps to the breakpoint, a breakpoint in the
\* blackboxed library, exceptions in the application (thrown from debugger
\* eval code, from application code, with no frames) and in the library, a
\* debugger statement, a pause without a reason.
PauseEvents ==
    { [ NoPause EXCEPT !.why = "breakpoint", !.actors = TRUE,
                       !.where = [ actor |-> "bundle", pos |-> 1 ] ],
      [ NoPause EXCEPT !.why = "breakpoint", !.actors = TRUE,
                       !.where = [ actor |-> "lib", pos |-> 1 ] ],
      [ NoPause EXCEPT !.why = "exception", !.start = "eval",
                       !.where = [ actor |-> "app", pos |-> 2 ] ],
      [ NoPause EXCEPT !.why = "exception", !.start = "app",
                       !.where = [ actor |-> "app", pos |-> 2 ] ],
      [ NoPause EXCEPT !.why = "exception", !.start = "app",
                       !.where = [ actor |-> "lib", pos |-> 2 ] ],
      [ NoPause EXCEPT !.why = "debuggerStatement",
                       !.where = [ actor |-> "app", pos |-> 2 ] ],
      [ NoPause EXCEPT !.where = [ actor |-> "app", pos |-> 1 ] ] }

\* What the thread-state handler did for the current pause: resume calls,
\* stopped events, whether the source adapter of the top frame was found and
\* is blackboxed, and the pause's number among those that reached the
\* hit-count gate (0 if it did not).
\* The paused events of the general specification: a debugger statement
\* and a breakpoint in the blackboxed library.
SessionPauseEvents ==
    { [ NoPause EXCEPT !.why = "debuggerStatement",
                       !.where = [ actor |-> "app", pos |-> 2 ] ],
      [ NoPause EXCEPT !.why = "breakpoint", !.actors = TRUE,
                       !.where = [ actor |-> "lib", pos |-> 1 ] ] }

NoPauseDone == [ resumes |-> 0, stops |-> 0, found |-> FALSE,
                 blackBoxed |-> FALSE, debuggerEval |-> FALSE, ord |-> 0 ]

\* ThreadAdapter.resume(): a resume request goes to the thread actor.
ThreadAdapterResume(t) == resumeReq' = [ resumeReq EXCEPT ![t] = TRUE ]

\* ThreadAdapter.fetchAllStackFrames(): the frame adapters of the current
\* pause are registered (when the browser can still be asked).
fetchAllStackFrames(t) ==
    IF SocketOpen THEN frames \cup { << t, epoch[t] >> } ELSE frames

\* breakpointsManager.getBreakpoints(path)?.find(...): the BreakpointInfo
\* realized at this location of this path, if there is one.
FindBreakpointInfo(path, pos) ==
    breakpointInfo.verified /\ BpLocation.path = path /\ BpLocation.pos = pos

\* The resumed branch without the await: the ContinuedEvent is next.
OnThreadStateResumedNoAwait(t) ==
    /\ rpc[t] = "idle"
    /\ rpc' = [ rpc EXCEPT ![t] = "continue" ]
    /\ rinfo' = [ rinfo EXCEPT ![t] =
                    [ epoch |-> epoch[t],
                      had |-> \E e \in 1 .. epoch[t] :
                                 << t, e >> \in frames \cup variablesProviders ] ]

\* Lines 620-626, first segment: the disposal of the pause-lifetime
\* adapters is started and awaited.
OnThreadStateResumed(t) ==
    /\ rpc[t] = "idle"
    /\ rpc' = [ rpc EXCEPT ![t] = "disposing" ]
    /\ rinfo' = [ rinfo EXCEPT ![t] =
                    [ epoch |-> epoch[t],
                      had |-> \E e \in 1 .. epoch[t] :
                                 << t, e >> \in frames \cup variablesProviders ] ]

\* Lines 613-618: the pause is surfaced.  z is what the handler did so far.
Surface(t, z) ==
    /\ threadAdapter' = [ threadAdapter EXCEPT ![t].threadPausedReason = pev[t].why ]
    /\ frames' = fetchAllStackFrames(t)
    /\ dap' = sendStoppedEvent(dap, t, pev[t].why)
    /\ pz' = [ pz EXCEPT ![t] = [ z EXCEPT !.stops = @ + 1 ] ]
    /\ ppc' = [ ppc EXCEPT ![t] = "idle" ]
    /\ pev' = [ pev EXCEPT ![t] = NoPause ]
    /\ UNCHANGED resumeReq

\* threadAdapter.resume(); return;
ResumeAndReturn(t, z) ==
    /\ ThreadAdapterResume(t)
    /\ pz' = [ pz EXCEPT ![t] = [ z EXCEPT !.resumes = @ + 1 ] ]
    /\ ppc' = [ ppc EXCEPT ![t] = "idle" ]
    /\ pev' = [ pev EXCEPT ![t] = NoPause ]
    /\ UNCHANGED << threadAdapter, frames, dap >>

\* Line 591 on, with a catch that resumes the thread when the lookup of
\* the source adapter failed.
From591FoundOnly(t, z) ==
    IF ~z.found
    THEN ResumeAndReturn(t, z)
    ELSE IF pev[t].why = "exception"
    THEN /\ ppc' = [ ppc EXCEPT ![t] = "fetchFrames" ]
         /\ pz' = [ pz EXCEPT ![t] = z ]
         /\ UNCHANGED << threadAdapter, frames, dap, resumeReq, pev >>
    ELSE Surface(t, z)

\* Lines 591-618 entered: an exception waits for the stack frames, any
\* other pause is surfaced.
From591(t, z) ==
    IF pev[t].why = "exception"
    THEN /\ ppc' = [ ppc EXCEPT ![t] = "fetchFrames" ]
         /\ pz' = [ pz EXCEPT ![t] = z ]
         /\ UNCHANGED << threadAdapter, frames, dap, resumeReq, pev >>
    ELSE Surface(t, z)

\* The browser reports a pause of the thread of target t.  An attached
\* thread's handler starts and awaits applySourceMapToFrame; the handler of
\* a target that is not attached resumes the thread.
ThreadStatePaused(t, ev, maxPauses) ==
    /\ ResourcesWatched
    /\ engTarget[t] = "alive"
    /\ ~engPaused[t]
    /\ TotalPauses < maxPauses
    /\ engPaused' = [ engPaused EXCEPT ![t] = TRUE ]
    /\ epoch' = [ epoch EXCEPT ![t] = @ + 1 ]
    /\ IF HandlersRegistered(t)
       THEN /\ ppc' = [ ppc EXCEPT ![t] = "applySourceMap" ]
            /\ pev' = [ pev EXCEPT ![t] = ev ]
            /\ pz' = [ pz EXCEPT ![t] = NoPauseDone ]
            /\ UNCHANGED resumeReq
       ELSE /\ IF tapc[t] = "skipped" THEN ThreadAdapterResume(t)
               ELSE UNCHANGED resumeReq
            /\ UNCHANGED pauseVars
    /\ UNCHANGED << config, launched, tabVars, componentVars, startVars, firefoxProc, firefoxDebugSocketClosed,
                    stopVars, descriptorVars, registryVars, engTarget,
                    targetVars, resumeVars, breakpointVars, dap >>

\* After `await this.sourceMaps.applySourceMapToFrame(event.frame)'.
PausedSourceMapApplied(t) ==
    /\ ppc[t] = "applySourceMap"
    /\ pev' = [ pev EXCEPT ![t].where = applySourceMapToFrame(@) ]
    /\ ppc' = [ ppc EXCEPT ![t] = "getAdapter" ]
    /\ UNCHANGED << config, launched, tabVars, componentVars, startVars, firefoxProc, firefoxDebugSocketClosed,
                    stopVars, descriptorVars, registryVars, engineVars,
                    targetVars, pz, resumeVars, breakpointVars, dap >>

\* The blackbox gate with the test left out.
BlackBoxGateOff(found, sourceAdapter) == FALSE

\* The blackbox gate, line 554: TRUE when the pause is to be resumed.
BlackBoxGate(found, sourceAdapter) == found /\ sourceAdapter.isBlackBoxed

\* The hit count incremented only below the hit limit.
IncrementHitCountBelowLimit(info) ==
    IF info.hitCount < info.hitLimit THEN [ info EXCEPT !.hitCount = @ + 1 ]
    ELSE info

\* Line 578: breakpointInfo.hitCount++.
IncrementHitCount(info) == [ info EXCEPT !.hitCount = @ + 1 ]

\* The hit-count gate with <= for <.
HitCountGateInclusive(hitCount, hitLimit) == hitCount <= hitLimit

\* The hit-count gate that lets only the hitLimit-th pause through.
HitCountGateOnce(hitCount, hitLimit) == hitCount # hitLimit

\* The hit-count gate, lines 579-584, for a BreakpointInfo with a hitLimit:
\* TRUE when the incremented hit count lets the pause be resumed.
HitCountGate(hitCount, hitLimit) == hitCount < hitLimit

\* After `await this.sources.getAdapterForActor(sourceLocation.actor)',
\* which found the adapter or threw: the blackbox gate, the hit-count gate,
\* then line 591.
PausedAdapterFound(t, found) ==
    /\ ppc[t] = "getAdapter"
    /\ LET sourceAdapter == SourceAdapter(pev[t].where.actor)
           z == [ pz[t] EXCEPT !.found = found,
                               !.blackBoxed = found /\ sourceAdapter.isBlackBoxed ]
           counted == /\ found
                      /\ pev[t].why = "breakpoint" /\ pev[t].actors
                      /\ sourceAdapter.path # ""
                      /\ FindBreakpointInfo(sourceAdapter.path, pev[t].where.pos)
                      /\ breakpointInfo.hitLimit > 0
       IN  IF BlackBoxGate(found, sourceAdapter)
           THEN /\ ResumeAndReturn(t, z)
                /\ UNCHANGED breakpointVars
           ELSE IF counted
           THEN /\ breakpointInfo' = IncrementHitCount(breakpointInfo)
                /\ gateCount' = gateCount + 1
                /\ IF HitCountGate(breakpointInfo'.hitCount, breakpointInfo.hitLimit)
                   THEN ResumeAndReturn(t, [ z EXCEPT !.ord = gateCount + 1 ])
                   ELSE From591(t, [ z EXCEPT !.ord = gateCount + 1 ])
           ELSE /\ From591(t, z)
                /\ UNCHANGED breakpointVars
    /\ UNCHANGED << config, launched, tabVars, componentVars, startVars, firefoxProc, firefoxDebugSocketClosed,
                    stopVars, descriptorVars, threads, threadsByTargetActorName,
                    variablesProviders, engTarget, engPaused, epoch, tapc,
                    tform, resumeVars >>

\* After `await threadAdapter.fetchAllStackFrames()' of an exception pause:
\* without a start frame the pause is surfaced, else the source adapter of
\* the start frame is awaited.
PausedFramesFetched(t) ==
    /\ ppc[t] = "fetchFrames"
    /\ SocketOpen
    /\ IF pev[t].start = ""
       THEN Surface(t, pz[t])
       ELSE /\ frames' = fetchAllStackFrames(t)
            /\ ppc' = [ ppc EXCEPT ![t] = "getStartAdapter" ]
            /\ UNCHANGED << threadAdapter, dap, pz, pev, resumeReq >>
    /\ UNCHANGED << config, launched, tabVars, componentVars, startVars, firefoxProc, firefoxDebugSocketClosed,
                    stopVars, descriptorVars, threads, threadsByTargetActorName,
                    variablesProviders, engTarget, engPaused, epoch, tapc,
                    tform, resumeVars, breakpointVars >>

\* The frames request is rejected when the connection is gone: the handler
\* ends with that rejection.
PausedFramesFailed(t) ==
    /\ ppc[t] = "fetchFrames"
    /\ ~SocketOpen
    /\ ppc' = [ ppc EXCEPT ![t] = "idle" ]
    /\ pev' = [ pev EXCEPT ![t] = NoPause ]
    /\ UNCHANGED << config, launched, tabVars, componentVars, startVars, firefoxProc, firefoxDebugSocketClosed,
                    stopVars, descriptorVars, registryVars, engineVars,
                    targetVars, pz, resumeVars, breakpointVars, dap >>

\* The debugger eval gate with the test left out.
DebuggerEvalGateOff(found, sourceAdapter) == FALSE

\* The debugger eval gate, line 600: TRUE when the pause is to be resumed.
DebuggerEvalGate(found, sourceAdapter) ==
    found /\ sourceAdapter.introductionType = "debugger eval"

\* After `await this.sources.getAdapterForActor(startFrame.frame.where.actor)',
\* which found the adapter or threw: the debugger eval gate.  pz records
\* whether the start frame's source was found to be debugger eval code.
PausedStartAdapterFound(t, found) ==
    /\ ppc[t] = "getStartAdapter"
    /\ LET sourceAdapter == SourceAdapter(pev[t].start)
           z == [ pz[t] EXCEPT !.debuggerEval =
                      found /\ sourceAdapter.introductionType = "debugger eval" ]
       IN  IF DebuggerEvalGate(found, sourceAdapter)
           THEN ResumeAndReturn(t, z)
           ELSE Surface(t, z)
    /\ UNCHANGED << config, launched, tabVars, componentVars, startVars, firefoxProc, firefoxDebugSocketClosed,
                    stopVars, descriptorVars, threads, threadsByTargetActorName,
                    variablesProviders, engTarget, engPaused, epoch, tapc,
                    tform, resumeVars, breakpointVars >>

\* The browser answers a resume request.  A paused thread resumes and its
\* target reports the resumed thread state, whose handler starts if the
\* thread is attached; a thread that is not paused answers with an error.
ThreadStateResumed(t) ==
    /\ resumeReq[t]
    /\ SocketOpen
    /\ resumeReq' = [ resumeReq EXCEPT ![t] = FALSE ]
    /\ IF engTarget[t] = "alive" /\ engPaused[t]
       THEN /\ engPaused' = [ engPaused EXCEPT ![t] = FALSE ]
            /\ IF HandlersRegistered(t)
               THEN OnThreadStateResumed(t)
               ELSE UNCHANGED resumeVars
       ELSE UNCHANGED << engPaused, resumeVars >>
    /\ UNCHANGED << config, launched, tabVars, componentVars, startVars, firefoxProc, firefoxDebugSocketClosed,
                    stopVars, descriptorVars, registryVars, engTarget, epoch,
                    targetVars, pauseVars, breakpointVars, dap >>

\* ThreadAdapter.disposePauseLifetimeAdapters() has finished: the frame
\* adapters and variables providers of the thread are disposed.
disposePauseLifetimeAdapters(t) ==
    /\ rpc[t] = "disposing"
    /\ frames' = { f \in frames : f[1] # t }
    /\ variablesProviders' = { v \in variablesProviders : v[1] # t }
    /\ rpc' = [ rpc EXCEPT ![t] = "continue" ]
    /\ UNCHANGED << config, launched, tabVars, componentVars, startVars, firefoxProc, firefoxDebugSocketClosed,
                    stopVars, descriptorVars, threads, threadsByTargetActorName,
                    engineVars, targetVars, pauseVars, rinfo, breakpointVars,
                    dap >>

\* Line 625: the ContinuedEvent.
ResumedContinued(t) ==
    /\ rpc[t] = "continue"
    /\ dap' = sendEvent(dap, ContinuedEvent(t))
    /\ rpc' = [ rpc EXCEPT ![t] = "idle" ]
    /\ UNCHANGED << config, launched, tabVars, componentVars, startVars, firefoxProc, firefoxDebugSocketClosed,
                    stopVars, descriptorVars, registryVars, engineVars,
                    targetVars, pauseVars, rinfo, breakpointVars >>

\* targetActor.onSources: attachSource for a source of the thread.
attachSource(t, sourceActor) ==
    /\ ResourcesWatched
    /\ engTarget[t] = "alive"
    /\ HandlersRegistered(t)
    /\ dap' = sendNewSourceEvent(dap, t, SourceAdapter(sourceActor).url)
    /\ UNCHANGED << config, launched, tabVars, componentVars, startVars, firefoxProc, firefoxDebugSocketClosed,
                    stopVars, descriptorVars, registryVars, engineVars,
                    targetVars, pauseVars, resumeVars, breakpointVars >>

(***************************************************************************)
(* The editor: continue, inspection of a stopped thread, setBreakpoints.   *)
(***************************************************************************)

\* A continue request for a thread the editor shows as stopped.
EditorContinue(t) ==
    /\ SocketOpen
    /\ t \in threads
    /\ dap.stoppedOpen[t]
    /\ ThreadAdapterResume(t)
    /\ dap' = [ dap EXCEPT !.stoppedOpen[t] = FALSE ]
    /\ UNCHANGED << config, launched, tabVars, componentVars, startVars, firefoxProc, firefoxDebugSocketClosed,
                    stopVars, descriptorVars, registryVars, engTarget,
                    engPaused, epoch, targetVars, pauseVars, resumeVars,
                    breakpointVars >>

\* A scopes request for a frame of the current pause registers variables
\* providers.
EditorInspect(t) ==
    /\ SocketOpen
    /\ t \in threads
    /\ dap.stoppedOpen[t]
    /\ engPaused[t]
    /\ << t, epoch[t] >> \in frames
    /\ << t, epoch[t] >> \notin variablesProviders
    /\ variablesProviders' = variablesProviders \cup { << t, epoch[t] >> }
    /\ UNCHANGED << config, launched, tabVars, componentVars, startVars, firefoxProc, firefoxDebugSocketClosed,
                    stopVars, descriptorVars, threads, threadsByTargetActorName,
                    frames, engineVars, targetVars, pauseVars, resumeVars,
                    breakpointVars, dap >>

\* setBreakpoints with the one breakpoint of the model, which the browser
\* realizes at BpLocation.
SetBreakpoints(hitLimit) ==
    /\ ResourcesWatched
    /\ ~breakpointInfo.verified
    /\ breakpointInfo' = [ verified |-> TRUE, hitLimit |-> hitLimit, hitCount |-> 0 ]
    /\ UNCHANGED << config, launched, tabVars, componentVars, startVars, firefoxProc, firefoxDebugSocketClosed,
                    stopVars, descriptorVars, registryVars, engineVars,
                    targetVars, pauseVars, resumeVars, gateCount, dap >>

(***************************************************************************)
(* stop(): disconnectFirefoxAndCleanup.                                    *)
(***************************************************************************)

\* `await this.firefoxDebugConnection.disconnect()' is entered.
Disconnect(log) ==
    [ spc |-> "disconnecting", stopLog |-> [ log EXCEPT !.disconnect = @ + 1 ] ]

\* Line 370 on, disconnecting and then going on to the removal.
From370DisconnectAndRemove(log) ==
    IF config.launch /\ config.tmpDirs
    THEN [ spc |-> "grace", stopLog |-> [ log EXCEPT !.disconnect = @ + 1 ] ]
    ELSE Disconnect(log)

\* disconnectFirefoxAndCleanup from line 370 on.
From370(log) ==
    IF ~firefoxDebugSocketClosed THEN Disconnect(log)
    ELSE IF config.launch /\ config.tmpDirs
    THEN [ spc |-> "grace", stopLog |-> log ]
    ELSE [ spc |-> "done", stopLog |-> log ]

\* disconnectFirefoxAndCleanup without the test of config.terminate.
disconnectFirefoxAndCleanupTerminating ==
    IF firefoxProc
    THEN [ spc |-> "raceClosed", stopLog |-> [ stopLog EXCEPT !.kill = @ + 1 ] ]
    ELSE IF ~firefoxDebugSocketClosed /\ addonsActor
    THEN [ spc |-> "installing", stopLog |-> stopLog ]
    ELSE From370(stopLog)

\* disconnectFirefoxAndCleanup up to its first await.
disconnectFirefoxAndCleanup ==
    IF ~config.terminate THEN Disconnect(stopLog)
    ELSE IF firefoxProc
    THEN [ spc |-> "raceClosed", stopLog |-> [ stopLog EXCEPT !.kill = @ + 1 ] ]
    ELSE IF ~firefoxDebugSocketClosed /\ addonsActor
    THEN [ spc |-> "installing", stopLog |-> stopLog ]
    ELSE From370(stopLog)

StopStep(n) ==
    /\ spc' = n.spc
    /\ stopLog' = n.stopLog
    /\ UNCHANGED << config, launched, tabVars, componentVars, startVars, firefoxProc, firefoxDebugSocketClosed,
                    descriptorVars, registryVars, engineVars, targetVars,
                    pauseVars, resumeVars, breakpointVars, dap >>

\* stop() is called (the editor disconnects).
stop ==
    /\ spc = "idle"
    /\ Connected
    /\ StopStep(disconnectFirefoxAndCleanup)

\* The race of firefoxClosedPromise with delay(1000) is over.
StopRaceClosedDone ==
    /\ spc = "raceClosed"
    /\ StopStep(From370(stopLog))

\* installAddon(terminatorPath) has answered.
StopInstalled ==
    /\ spc = "installing"
    /\ SocketOpen
    /\ StopStep([ spc |-> "raceSocket",
                  stopLog |-> [ stopLog EXCEPT !.install = @ + 1 ] ])

\* installAddon is rejected because the connection is gone: stop() ends
\* with that rejection.
StopInstallFailed ==
    /\ spc = "installing"
    /\ ~SocketOpen
    /\ StopStep([ spc |-> "done", stopLog |-> stopLog ])

\* The race of firefoxDebugSocketClosedPromise with delay(1000) is over.
StopRaceSocketDone ==
    /\ spc = "raceSocket"
    /\ StopStep(From370(stopLog))

\* disconnect() has closed the transport.
StopDisconnected ==
    /\ spc = "disconnecting"
    /\ firefoxDebugSocketClosed
    /\ StopStep([ spc |-> "done", stopLog |-> stopLog ])

\* delay(500) and the removal of the temporary directories are over.
StopRemoved ==
    /\ spc = "grace"
    /\ StopStep([ spc |-> "done", stopLog |-> [ stopLog EXCEPT !.remove = @ + 1 ] ])

(***************************************************************************)
(* The specification.                                                      *)
(***************************************************************************)

\* start() and the handlers it registers.  outcomes: those of connect(),
\* launchFirefox() and waitForSocket(); traitsOf: the traits the root actor
\* may report; addonsOf: whether fetchRoot() reports an addons actor.
StartSteps(outcomes, traitsOf, addonsOf) ==
    \/ \E connectOk, procReturned, socketOk \in outcomes :
           Start(connectOk, procReturned, socketOk)
    \/ \E traits \in traitsOf : RootInit(traits)
    \/ \E hasAddons \in addonsOf : FetchRootDone(hasAddons)
    \/ AttachDescriptorCreated
    \/ AttachDescriptorDone
    \/ WatchResourcesDone

\* The notifications of the watcher for the targets T, reported with one of
\* the given forms.
TargetSteps(T, forms) ==
    \/ \E t \in T, form \in forms : TargetAvailable(t, form)
    \/ \E t \in T : TargetAvailableAttached(t)
    \/ \E t \in T : TargetDestroyed(t)

\* The thread-state notifications of the targets T and what follows them.
ThreadSteps(T, events, maxPauses) ==
    \/ \E t \in T, ev \in events : ThreadStatePaused(t, ev, maxPauses)
    \/ \E t \in T : PausedSourceMapApplied(t)
    \/ \E t \in T, found \in BOOLEAN : PausedAdapterFound(t, found)
    \/ \E t \in T : ThreadStateResumed(t)
    \/ \E t \in T : disposePauseLifetimeAdapters(t)
    \/ \E t \in T : ResumedContinued(t)

\* What follows the pause of an exception.
ExceptionSteps(T) ==
    \/ \E t \in T : PausedFramesFetched(t)
    \/ \E t \in T : PausedFramesFailed(t)
    \/ \E t \in T, found \in BOOLEAN : PausedStartAdapterFound(t, found)

EditorSteps(T, hitLimits) ==
    \/ \E t \in T : EditorContinue(t)
    \/ \E t \in T : EditorInspect(t)
    \/ \E hitLimit \in hitLimits : SetBreakpoints(hitLimit)

StopSteps ==
    \/ stop
    \/ StopRaceClosedDone
    \/ StopInstalled
    \/ StopInstallFailed
    \/ StopRaceSocketDone
    \/ StopDisconnected
    \/ StopRemoved

\* The general specification: a session of either configuration, every
\* handler, pauses with and without a reason.
Next ==
    \/ StartSteps(BOOLEAN, Traits, BOOLEAN)
    \/ SocketClosed
    \/ FirefoxProcExit
    \/ SessionStartedDone
    \/ TargetSteps(Targets, TargetForms)
    \/ \E t \in Targets : TargetAvailableAddonId(t)
    \/ \E type \in DescriptorEvents : DescriptorEvent(type)
    \/ ThreadSteps(Targets, SessionPauseEvents, MaxSessionPauses)
    \/ \E t \in Targets, sourceActor \in Sources : attachSource(t, sourceActor)
    \/ \E t \in Targets : EditorContinue(t)
    \/ StopSteps

Spec == Init /\ [][Next]_vars

\* The specification of the thread state machine: an attach session to a
\* browser in process descriptor mode, whose page targets pause for every
\* reason, with the breakpoint set with or without a hit limit.
ThreadConfigs ==
    { c \in Configs : /\ c.attach /\ ~c.launch /\ ~c.reloadTabs /\ ~c.terminate
                      /\ ~c.addon /\ ~c.clearConsoleOnReload }

ProcessModeTraits ==
    { tr \in Traits : /\ tr.nativeLogpoints
                      /\ tr.webExtensionAddonConnect
                      /\ tr.supportsEnableWindowGlobalThreadActors }

PageForms == { form \in TargetForms : form.addonId = "" /\ form.url = "in" }

InitThreads == InitWith(ThreadConfigs)

NextThreads ==
    \/ StartSteps({ TRUE }, ProcessModeTraits, { TRUE })
    \/ SocketClosed
    \/ TargetSteps(Targets, PageForms)
    \/ ThreadSteps(Targets, PauseEvents, MaxPauses)
    \/ ExceptionSteps(Targets)
    \/ EditorSteps(Targets, 1 .. MaxHitLimit)

SpecThreads == InitThreads /\ [][NextThreads]_vars

\* Scenario S1: the breakpoint is set with hit limit S1HitLimit before the
\* script runs; the loop of the script then reaches it S1Pauses times, the
\* editor continuing after every stop.
S1Event == [ NoPause EXCEPT !.why = "breakpoint", !.actors = TRUE,
                            !.where = [ actor |-> "bundle", pos |-> 1 ] ]

InitS1 == InitWith(ThreadConfigs)

NextS1 ==
    \/ StartSteps({ TRUE }, ProcessModeTraits, { TRUE })
    \/ \E t \in Targets, form \in PageForms : TargetAvailable(t, form)
    \/ \E t \in Targets : TargetAvailableAttached(t)
    \/ SetBreakpoints(S1HitLimit)
    \/ \E t \in Targets :
           breakpointInfo.verified /\ ThreadStatePaused(t, S1Event, S1Pauses)
    \/ \E t \in Targets : PausedSourceMapApplied(t)
    \/ \E t \in Targets : PausedAdapterFound(t, TRUE)
    \/ \E t \in Targets : ThreadStateResumed(t)
    \/ \E t \in Targets : disposePauseLifetimeAdapters(t)
    \/ \E t \in Targets : ResumedContinued(t)
    \/ \E t \in Targets : EditorContinue(t)
    \/ \E t \in Targets : EditorInspect(t)

SpecS1 == InitS1 /\ [][NextS1]_vars

(***************************************************************************)
(* Properties.                                                             *)
(***************************************************************************)
HandlersIdle == \A t \in Targets : ppc[t] = "idle" /\ rpc[t] = "idle"

StoppedEvents == SumOver(dap.stopped, Targets)

\* C1: a pause of an attached thread whose source-mapped top frame lies in
\* a blackboxed source (its source adapter being found) makes the handler
\* call resume on the thread once and send no stopped event for it.
C1_BlackBoxedPauseResumed ==
    \A t \in Targets :
        pz[t].blackBoxed =>
            /\ ppc[t] = "idle"
            /\ pz[t].resumes = 1
            /\ pz[t].stops = 0

\* C1 witness: the handler has resumed a pause in a blackboxed source.
C1_Witness ==
    \E t \in Targets : pz[t].blackBoxed /\ pz[t].resumes = 1 /\ epoch[t] > 0

\* C2: of the breakpoint pauses at the actual location of a realized
\* breakpoint with hit limit N, counted as the handler takes them to the
\* hit-count gate, each of the first N-1 is resumed without a stopped event
\* and the N-th is surfaced with a stopped event and not resumed.
C2_NthPauseStops ==
    \A t \in Targets :
        pz[t].ord > 0 =>
            /\ ppc[t] = "idle"
            /\ pz[t].ord < breakpointInfo.hitLimit =>
                   pz[t].resumes = 1 /\ pz[t].stops = 0
            /\ pz[t].ord = breakpointInfo.hitLimit =>
                   pz[t].resumes = 0 /\ pz[t].stops = 1

\* C2 witness: with a hit limit above 1, the pause that reached the limit
\* was surfaced.
C2_Witness ==
    \E t \in Targets :
        /\ breakpointInfo.hitLimit > 1
        /\ pz[t].ord = breakpointInfo.hitLimit
        /\ pz[t].stops = 1

\* C3 as stated: a verified breakpoint with a hit limit has
\* hitCount <= hitLimit in every reachable state.
C3_HitCountWithinLimit ==
    (breakpointInfo.verified /\ breakpointInfo.hitLimit > 0) =>
        breakpointInfo.hitCount <= breakpointInfo.hitLimit

\* C3 amended: the hit count of a verified breakpoint with a hit limit is
\* the number of breakpoint pauses at its location that reached the
\* hit-count gate, whatever the hit limit.
C3_HitCountCountsPauses ==
    (breakpointInfo.verified /\ breakpointInfo.hitLimit > 0) =>
        breakpointInfo.hitCount = gateCount

\* C3 witness: more pauses than the hit limit were counted.
C3_Witness ==
    /\ breakpointInfo.verified
    /\ breakpointInfo.hitLimit > 0
    /\ breakpointInfo.hitCount > breakpointInfo.hitLimit

\* C4 as stated: after the S1Pauses pauses of scenario S1 exactly one
\* stopped event has been sent.
C4_ExactlyOneStopped ==
    (gateCount = S1Pauses /\ HandlersIdle) => StoppedEvents = 1

\* C4 amended: in scenario S1 every pause from the S1HitLimit-th on sends a
\* stopped event: once k pauses are handled, k - (S1HitLimit - 1) stopped
\* events have been sent (none while k < S1HitLimit).
C4_StoppedFromLimitOn ==
    (\A t \in Targets : ppc[t] = "idle") =>
        StoppedEvents = IF gateCount < S1HitLimit THEN 0
                        ELSE gateCount - (S1HitLimit - 1)

\* C4 witness: all pauses of the scenario are handled and more than one
\* stopped event has been sent.
C4_Witness ==
    gateCount = S1Pauses /\ HandlersIdle /\ StoppedEvents > 1

\* C5: the continued event of a thread is sent only when no frame adapter
\* and no variables provider of the pause that ended, or of an earlier one,
\* is registered any more.
C5_ContinuedAfterDisposal ==
    [][ \A t \in Targets :
            dap'.continued[t] > dap.continued[t] =>
                \A e \in 1 .. rinfo[t].epoch :
                    << t, e >> \notin frames' \cup variablesProviders' ]_vars

\* C5 witness: a continued event has been sent for a resume that found
\* pause-lifetime adapters registered.
C5_Witness ==
    \E t \in Targets :
        dap.continued[t] > 0 /\ rinfo[t].had /\ rpc[t] = "idle"

\* C6 as stated, for the targets that are attached: the thread is announced
\* as started once, and once the target is destroyed it is announced as
\* exited once.
C6_OneStartedOneExited ==
    \A t \in Targets :
        tapc[t] = "attached" =>
            /\ dap.threadStarted[t] = 1
            /\ dap.threadExited[t] <= 1
            /\ engTarget[t] = "dead" => dap.threadExited[t] = 1

\* C7 as stated: no thread is announced as exited twice, and no stopped,
\* continued or newSource event of a thread follows its exited event.
C7_ExitedOnceThenSilent ==
    \A t \in Targets : dap.exited[t] <= 1 /\ ~dap.late[t]

\* C8: no newSource, stopped or continued event of a thread is sent before
\* its thread started event and its custom threadStarted event.
C8_StartedFirst == \A t \in Targets : ~dap.early[t]

\* C8 witness: a thread was announced and then had a source, a stop and a
\* continue reported.
C8_Witness ==
    \E t \in Targets :
        /\ dap.started[t] = 1 /\ dap.threadStarted[t] = 1
        /\ dap.newSource[t] = 1 /\ dap.stopped[t] > 0 /\ dap.continued[t] > 0

\* C9 as stated: once stop() has completed the registries of threads,
\* descriptors, frames and variables providers are empty and no event has
\* been sent since.
C9_StoppedSessionIsClean ==
    spc = "done" =>
        /\ threads = {} /\ descriptors = {}
        /\ frames = {} /\ variablesProviders = {}
        /\ ~dap.afterStop

\* C10: the session has sent one terminated event if the debug socket has
\* closed and none if it has not; it never sends a second one.
C10_OneTerminated ==
    /\ firefoxDebugSocketClosed => dap.terminated = 1
    /\ ~firefoxDebugSocketClosed => dap.terminated = 0

\* C10 witness: the socket closed on a running session with an attached
\* thread, and the terminated event was sent.
C10_Witness ==
    /\ firefoxDebugSocketClosed
    /\ dap.terminated = 1
    /\ ipc = "running"
    /\ threads # {}

MaxThreadId == 4

\* Registry.find: the value registered under the id, or undefined.
find(registry, id) == IF id \in registry THEN id ELSE 0

\* The first entry an iteration over the registry yields: the oldest one.
first(registry) == CHOOSE id \in registry : \A other \in registry : id <= other

\* getActiveThread that trusts lastActiveThreadId without looking it up.
getActiveThreadNoFind(last, registry) ==
    IF last # 0 THEN [ thread |-> last, lastActiveThreadId |-> last ]
    ELSE IF registry # {}
    THEN [ thread |-> first(registry), lastActiveThreadId |-> first(registry) ]
    ELSE [ thread |-> 0, lastActiveThreadId |-> last ]

\* getActiveThread: the thread and the lastActiveThreadId it leaves behind.
getActiveThread(last, registry) ==
    IF find(registry, last) # 0
    THEN [ thread |-> find(registry, last), lastActiveThreadId |-> last ]
    ELSE IF registry # {}
    THEN [ thread |-> first(registry), lastActiveThreadId |-> first(registry) ]
    ELSE [ thread |-> 0, lastActiveThreadId |-> last ]

\* new ThreadAdapter(...): the adapter registers itself.
RegisterThread ==
    /\ nextId <= MaxThreadId
    /\ threads' = threads \cup { nextId }
    /\ nextId' = nextId + 1
    /\ activeThread' = NoCall
    /\ UNCHANGED << sessionVars, lastActiveThreadId, source, descriptorActor, pendingRequests, input, output, threadActor >>

\* ThreadAdapter.dispose(): the adapter leaves the registry.
UnregisterThread(id) ==
    /\ id \in threads
    /\ threads' = threads \ { id }
    /\ activeThread' = NoCall
    /\ UNCHANGED << sessionVars, lastActiveThreadId, nextId, source, descriptorActor, pendingRequests, input, output, threadActor >>

\* setActiveThread with an adapter that was created at some time.
SetActiveThread(id) ==
    /\ id < nextId
    /\ lastActiveThreadId' = id
    /\ activeThread' = NoCall
    /\ UNCHANGED << sessionVars, threads, nextId, source, descriptorActor, pendingRequests, input, output, threadActor >>

GetActiveThread ==
    /\ LET r == getActiveThread(lastActiveThreadId, threads)
       IN  /\ activeThread' = [ called |-> TRUE, last |-> lastActiveThreadId,
                                thread |-> r.thread ]
           /\ lastActiveThreadId' = r.lastActiveThreadId
    /\ UNCHANGED << sessionVars, threads, nextId, source, descriptorActor, pendingRequests, input, output, threadActor >>

NextActive ==
    \/ RegisterThread
    \/ \E id \in 1..MaxThreadId : UnregisterThread(id)
    \/ \E id \in 1..MaxThreadId : SetActiveThread(id)
    \/ GetActiveThread

SpecActive == InitWith(ThreadConfigs) /\ [][NextActive]_vars

\* C12: getActiveThread returns the thread last given to setActiveThread if
\* it is still registered; otherwise it returns a registered thread and
\* records it as the active one; it returns undefined only when no thread is
\* registered, and never a thread that is not in the registry.
C12_ActiveThreadRegistered ==
    activeThread.called =>
        /\ activeThread.last \in threads => activeThread.thread = activeThread.last
        /\ (activeThread.last \notin threads /\ threads # {}) =>
               /\ activeThread.thread \in threads
               /\ lastActiveThreadId = activeThread.thread
        /\ activeThread.thread = 0 <=> threads = {}
        /\ activeThread.thread # 0 => activeThread.thread \in threads

\* The active thread was disposed while others remain, and getActiveThread
\* fell back to one of them.
C12_Witness ==
    /\ activeThread.called
    /\ activeThread.last # 0 /\ activeThread.last \notin threads
    /\ activeThread.thread \in threads
    /\ Cardinality(threads) = 2

(***************************************************************************)
(* start() with its inputs drawn beforehand: the outcomes of connect(),    *)
(* launchFirefox() and waitForSocket(), and the traits of the init packet. *)
(***************************************************************************)
StartConfigs ==
    { c \in Configs : ~c.terminate /\ ~c.tmpDirs /\ ~c.clearConsoleOnReload }

StartInputs ==
    [ scenario : { "start" }, connectOk : BOOLEAN, procReturned : BOOLEAN,
      socketOk : BOOLEAN, traits : Traits ]

NextStart ==
    \/ Start(input.connectOk, input.procReturned, input.socketOk)
    \/ RootInit(input.traits)
    \/ \E hasAddons \in BOOLEAN : FetchRootDone(hasAddons)
    \/ AttachDescriptorCreated
    \/ AttachDescriptorDone
    \/ SessionStartedDone
    \/ WatchResourcesDone
    \/ SocketClosed
    \/ FirefoxProcExit

SpecStart == InitOf(StartConfigs, StartInputs) /\ [][NextStart]_vars

\* The onInit handler has run its first segment.
InitHandled == ipc \notin { "constructed", "failed", "waitInit" }

\* Nothing of the discovery has happened: no fetchRoot result, no descriptor.
NoDiscovery ==
    /\ processDescriptorMode = "undefined"
    /\ ~addonsActor
    /\ descriptor = "none" /\ descriptors = {}

\* C13 as stated: an init packet without the nativeLogpoints trait makes
\* start() reject and no discovery follows.
C13_NoNativeLogpointsRejected ==
    (input.scenario = "start" /\ InitHandled /\ ~input.traits.nativeLogpoints) =>
        /\ startPromise = "rejected" /\ ipc = "rejected"
        /\ NoDiscovery

\* C13: an init packet with the webExtensionAddonConnect trait and without
\* the nativeLogpoints trait makes start() reject, and the handler ends
\* before fetchRoot, the descriptor attach and watchResources; every other
\* init packet, one without either trait included, is accepted and the
\* discovery goes on.
C13_UnsupportedVersionRejected ==
    (input.scenario = "start" /\ InitHandled) =>
        IF input.traits.webExtensionAddonConnect /\ ~input.traits.nativeLogpoints
        THEN /\ startPromise = "rejected" /\ ipc = "rejected"
             /\ NoDiscovery
        ELSE /\ ipc # "rejected"
             /\ processDescriptorMode # "undefined"

C13_Witness ==
    /\ input.scenario = "start" /\ InitHandled
    /\ input.traits.webExtensionAddonConnect /\ ~input.traits.nativeLogpoints
    /\ startPromise = "rejected"

\* C14: with an attach configuration whose connect succeeds the browser is
\* not launched and reloadTabs is the attach configuration's value; when the
\* connect fails and a launch configuration exists the browser is launched
\* and its socket is awaited; when the connect fails and there is no launch
\* configuration the error is propagated and start() rejects.
C14_AttachElseLaunchElseFail ==
    (input.scenario = "start" /\ ipc # "constructed" /\ config.attach) =>
        /\ input.connectOk =>
               /\ ~launched /\ ~firefoxProc
               /\ ipc = "waitInit" => reloadTabs = config.reloadTabs
               /\ ipc # "failed"
        /\ (~input.connectOk /\ config.launch) =>
               /\ launched
               /\ ipc = "failed" <=> ~input.socketOk
        /\ (~input.connectOk /\ ~config.launch) =>
               /\ ~launched
               /\ ipc = "failed" /\ startPromise = "rejected"
               /\ dap.initialized = 0

\* The connect failed and the session fell back to launching the browser.
C14_Witness ==
    /\ input.scenario = "start"
    /\ config.attach /\ config.launch /\ ~input.connectOk
    /\ launched /\ ipc = "waitInit"

\* C15 as stated: for a target that is filtered out no thread adapter is
\* registered, no thread started event is sent, no stopped event is sent,
\* and whenever its thread is paused a resume request has been sent for it.
C15_FilteredTargetResumed ==
    \A t \in Targets :
        tapc[t] = "skipped" =>
            /\ t \notin threads /\ t \notin threadsByTargetActorName
            /\ dap.started[t] = 0 /\ dap.threadStarted[t] = 0
            /\ dap.stopped[t] = 0
            /\ engPaused[t] => resumeReq[t]

\* C16 as stated: the stopped reason is "exception" for an exception,
\* "breakpoint" for a breakpoint, "debugger statement" for a debugger
\* statement and "interrupt" for any other or a missing reason, and the
\* event has allThreadsStopped = false.
C16_ReasonClassified ==
    \A t \in Targets :
        dap.stopped[t] > 0 =>
            /\ dap.stopReason[t] =
                   CASE threadAdapter[t].threadPausedReason = "exception" -> "exception"
                     [] threadAdapter[t].threadPausedReason = "breakpoint" -> "breakpoint"
                     [] threadAdapter[t].threadPausedReason = "debuggerStatement" ->
                            "debugger statement"
                     [] OTHER -> "interrupt"
            /\ ~dap.allThreadsStopped

\* C16: the reason of the stopped event is the type of the engine's pause
\* reason, unchanged ("exception", "breakpoint", "debuggerStatement", ...),
\* and "interrupt" when the pause has no reason; the event has
\* allThreadsStopped = false.
C16_ReasonTypePassedOn ==
    \A t \in Targets :
        dap.stopped[t] > 0 =>
            /\ dap.stopReason[t] =
                   IF threadAdapter[t].threadPausedReason = "undefined"
                   THEN "interrupt"
                   ELSE threadAdapter[t].threadPausedReason
            /\ ~dap.allThreadsStopped

C16_Witness ==
    \E t \in Targets :
        /\ dap.stopped[t] > 0
        /\ threadAdapter[t].threadPausedReason = "debuggerStatement"
        /\ dap.stopReason[t] = "debuggerStatement"

(***************************************************************************)
(* attachSource and the skip decision.  The input is a new source: whether *)
(* its adapter has a path, whether it has a generated URL, its URL, what   *)
(* shouldSkip answers for each of the three, and whether the adapter that  *)
(* sources.addActor returns is blackboxed already.                         *)
(***************************************************************************)
SkipAnswers == { "true", "false", "undefined" }

SourceInputs ==
    [ scenario : { "source" }, path : BOOLEAN, generatedUrl : BOOLEAN,
      url : { "", "relative", "absolute" }, skipPath : SkipAnswers,
      skipGeneratedUrl : SkipAnswers, skipUrl : SkipAnswers,
      isBlackBoxed : BOOLEAN ]

\* The skip decision taken from the generated URL whenever there is one.
skipThisSourceGeneratedUrlFirst(src) ==
    IF src.path THEN src.skipPath
    ELSE IF src.generatedUrl THEN src.skipGeneratedUrl
    ELSE IF src.url # "" THEN src.skipUrl
    ELSE "undefined"

\* Lines 638-645: skipThisSource.
skipThisSource(src) ==
    IF src.path THEN src.skipPath
    ELSE IF src.generatedUrl /\ (src.url = "" \/ src.url # "absolute")
    THEN src.skipGeneratedUrl
    ELSE IF src.url # "" THEN src.skipUrl
    ELSE "undefined"

\* SourceAdapter.setBlackBoxed: the state is set and sent to the actors.
setBlackBoxed(adapter, skip) ==
    [ adapter EXCEPT !.isBlackBoxed = skip, !.setBlackbox = Append(@, skip) ]

\* attachSource for the source of the input, on thread 1.
AttachSourceSkip ==
    /\ input.scenario = "source"
    /\ ~source.attached
    /\ LET skip == skipThisSource(input)
           sourceAdapter == [ source EXCEPT !.attached = TRUE,
                                            !.isBlackBoxed = input.isBlackBoxed ]
       IN  source' =
               IF skip = "undefined" THEN sourceAdapter
               ELSE IF (skip = "true") # sourceAdapter.isBlackBoxed
               THEN setBlackBoxed(sourceAdapter, skip = "true")
               ELSE IF skip = "true"
               THEN [ sourceAdapter EXCEPT !.setBlackbox = Append(@, TRUE) ]
               ELSE sourceAdapter
    /\ dap' = sendNewSourceEvent(dap, 1, input.url)
    /\ UNCHANGED << config, ipc, startPromise, processDescriptorMode, reloadTabs,
                    firefoxProc, firefoxDebugSocketClosed, addonsActor, stopVars,
                    descriptorVars, registryVars, engineVars, targetVars,
                    pauseVars, resumeVars, breakpointVars, launched, tabVars,
                    lastActiveThreadId, activeThread, nextId, descriptorActor,
                    pendingRequests, input, output, threadActor >>

SpecSource == InitOf(ThreadConfigs, SourceInputs) /\ [][AttachSourceSkip]_vars

\* C17 as stated: the decision comes from the path, else from the generated
\* URL, else from the URL; a defined decision is the adapter's blackbox
\* state after attachSource and a change is sent to the source actor; with
\* an undefined decision the state is unchanged and nothing is sent.
C17_PathElseGeneratedUrlElseUrl ==
    source.attached =>
        LET skip == skipThisSourceGeneratedUrlFirst(input)
        IN  IF skip = "undefined"
            THEN /\ source.isBlackBoxed = input.isBlackBoxed
                 /\ source.setBlackbox = << >>
            ELSE /\ source.isBlackBoxed = (skip = "true")
                 /\ source.isBlackBoxed # input.isBlackBoxed =>
                        source.setBlackbox = << source.isBlackBoxed >>

\* C17: the decision comes from the adapter's path if it has one, else from
\* the generated URL if the source has one and its URL is missing or not
\* absolute, else from the URL if it has one.  A defined decision is the
\* adapter's blackbox state after attachSource; it is sent to the source
\* actor once if it changed the state or is a decision to skip, and not at
\* all otherwise.  With an undefined decision the state is unchanged and
\* nothing is sent.
C17_SkipDecisionApplied ==
    source.attached =>
        LET skip == IF input.path THEN input.skipPath
                    ELSE IF input.generatedUrl /\ input.url # "absolute"
                    THEN input.skipGeneratedUrl
                    ELSE IF input.url # "" THEN input.skipUrl
                    ELSE "undefined"
        IN  IF skip = "undefined"
            THEN /\ source.isBlackBoxed = input.isBlackBoxed
                 /\ source.setBlackbox = << >>
            ELSE /\ source.isBlackBoxed = (skip = "true")
                 /\ source.setBlackbox =
                        IF source.isBlackBoxed # input.isBlackBoxed \/ skip = "true"
                        THEN << source.isBlackBoxed >> ELSE << >>

\* A source-mapped source without a path whose URL is absolute: the URL
\* decides, against the answer for the generated URL.
C17_Witness ==
    /\ source.attached
    /\ ~input.path /\ input.generatedUrl /\ input.url = "absolute"
    /\ input.skipGeneratedUrl = "false" /\ input.skipUrl = "true"
    /\ source.isBlackBoxed /\ source.setBlackbox = << TRUE >>

\* C18: when the handler of an exception pause finds that the source of the
\* last frame of the stack has introduction type "debugger eval", it
\* resumes the thread, sends no stopped event for the pause and leaves
\* threadPausedReason as it was.
C18_DebuggerEvalExceptionResumed ==
    [][ \A t \in Targets :
          (ppc[t] = "getStartAdapter" /\ ppc'[t] = "idle" /\ pz'[t].debuggerEval) =>
              /\ pev[t].why = "exception"
              /\ resumeReq'[t]
              /\ pz'[t].resumes = 1 /\ pz'[t].stops = 0
              /\ dap'.stopped[t] = dap.stopped[t]
              /\ threadAdapter'[t].threadPausedReason =
                     threadAdapter[t].threadPausedReason ]_vars

\* An exception thrown from debugger eval code after an earlier pause was
\* surfaced: the thread is resumed and the earlier reason is still there.
C18_Witness ==
    \E t \in Targets :
        /\ ppc[t] = "idle" /\ pz[t].debuggerEval
        /\ pz[t].resumes = 1 /\ pz[t].stops = 0
        /\ dap.stopped[t] = 1
        /\ threadAdapter[t].threadPausedReason = "breakpoint"

(***************************************************************************)
(* DescriptorActorProxy.getWatcher over sendCachedRequest: a successful    *)
(* response is memoized under the key 'getWatcher', a later call returns   *)
(* the memoized value without a request.  Watchers are numbered as they    *)
(* are constructed.                                                        *)
(***************************************************************************)
MaxCalls == 6

\* sendCachedRequest that never looks into the cache.
sendUncachedRequest(p) ==
    [ p EXCEPT !.requests = @ + 1, !.pending = @ + 1 ]

\* sendCachedRequest up to the request: the cached value is returned, or
\* the request is sent.
sendCachedRequest(p) ==
    IF p.cache # 0 THEN [ p EXCEPT !.returned = @ \cup { p.cache } ]
    ELSE [ p EXCEPT !.requests = @ + 1, !.pending = @ + 1 ]

\* A getWatcher() call.
GetWatcher ==
    /\ descriptorActor.calls < MaxCalls
    /\ descriptorActor' =
           [ sendCachedRequest(descriptorActor) EXCEPT
               !.calls = @ + 1,
               !.overlap = @ \/ descriptorActor.pending > 0 ]
    /\ UNCHANGED << sessionVars, threads, lastActiveThreadId, activeThread,
                    nextId, source, pendingRequests, input, output, threadActor >>

\* The response to a getWatcher request: a WatcherActorProxy is constructed
\* from it, memoized and returned.
GetWatcherResponse ==
    /\ descriptorActor.pending > 0
    /\ LET watcher == descriptorActor.created + 1
       IN  descriptorActor' =
               [ descriptorActor EXCEPT !.pending = @ - 1, !.created = watcher,
                                        !.cache = watcher,
                                        !.returned = @ \cup { watcher } ]
    /\ UNCHANGED << sessionVars, threads, lastActiveThreadId, activeThread,
                    nextId, source, pendingRequests, input, output, threadActor >>

\* An error response to a getWatcher request: the call rejects, nothing is
\* memoized.
GetWatcherError ==
    /\ descriptorActor.pending > 0
    /\ descriptorActor' = [ descriptorActor EXCEPT !.pending = @ - 1,
                                                   !.errors = @ + 1 ]
    /\ UNCHANGED << sessionVars, threads, lastActiveThreadId, activeThread,
                    nextId, source, pendingRequests, input, output, threadActor >>

NextWatcher ==
    \/ GetWatcher
    \/ GetWatcherResponse
    \/ GetWatcherError

SpecWatcher == InitWith(ThreadConfigs) /\ [][NextWatcher]_vars

\* C19: when the getWatcher() calls of a descriptor proxy are made one
\* after the other, the calls return one and the same WatcherActorProxy,
\* one proxy is constructed, and no request follows a successful response:
\* there is at most one request beyond those answered with an error.
C19_OneWatcher ==
    ~descriptorActor.overlap =>
        /\ Cardinality(descriptorActor.returned) <= 1
        /\ descriptorActor.created <= 1
        /\ descriptorActor.requests <= descriptorActor.errors + 1
        /\ descriptorActor.cache # 0 =>
               /\ descriptorActor.returned = { descriptorActor.cache }
               /\ descriptorActor.requests = descriptorActor.errors + 1

\* Calls one after the other, the first one answered successfully.
C19_Witness ==
    /\ ~descriptorActor.overlap
    /\ descriptorActor.calls = MaxCalls /\ descriptorActor.errors = 0
    /\ descriptorActor.requests = 1 /\ descriptorActor.returned = { 1 }

(***************************************************************************)
(* PendingRequests: the queue of the requests of an actor proxy that wait  *)
(* for their responses.  Requests are numbered as they are enqueued.       *)
(***************************************************************************)
MaxRequests == 4
MaxMisses == 2

enqueue(p) ==
    [ p EXCEPT !.queue = Append(@, p.enqueued + 1), !.enqueued = @ + 1 ]

\* resolveOne that takes the youngest request.
resolveOneYoungest(p) ==
    IF Len(p.queue) > 0
    THEN [ p EXCEPT !.queue = SubSeq(@, 1, Len(@) - 1),
                    !.settled = Append(@, << p.queue[Len(p.queue)], "resolved" >>) ]
    ELSE [ p EXCEPT !.misses = @ + 1 ]

\* resolveOne: shift() and resolve, or a log line.
resolveOne(p) ==
    IF Len(p.queue) > 0
    THEN [ p EXCEPT !.queue = Tail(@),
                    !.settled = Append(@, << Head(p.queue), "resolved" >>) ]
    ELSE [ p EXCEPT !.misses = @ + 1 ]

\* rejectOne: shift() and reject, or a log line.
rejectOne(p) ==
    IF Len(p.queue) > 0
    THEN [ p EXCEPT !.queue = Tail(@),
                    !.settled = Append(@, << Head(p.queue), "rejected" >>) ]
    ELSE [ p EXCEPT !.misses = @ + 1 ]

\* The proxy sends a request and enqueues it.
Enqueue ==
    /\ pendingRequests.enqueued < MaxRequests
    /\ pendingRequests' = enqueue(pendingRequests)
    /\ UNCHANGED << sessionVars, threads, lastActiveThreadId, activeThread,
                    nextId, source, descriptorActor, input, output, threadActor >>

\* The proxy receives a response.
ResolveOne ==
    /\ Len(pendingRequests.queue) > 0 \/ pendingRequests.misses < MaxMisses
    /\ pendingRequests' = resolveOne(pendingRequests)
    /\ UNCHANGED << sessionVars, threads, lastActiveThreadId, activeThread,
                    nextId, source, descriptorActor, input, output, threadActor >>

\* The proxy receives an error response.
RejectOne ==
    /\ Len(pendingRequests.queue) > 0 \/ pendingRequests.misses < MaxMisses
    /\ pendingRequests' = rejectOne(pendingRequests)
    /\ UNCHANGED << sessionVars, threads, lastActiveThreadId, activeThread,
                    nextId, source, descriptorActor, input, output, threadActor >>

NextPending ==
    \/ Enqueue
    \/ ResolveOne
    \/ RejectOne

SpecPending == InitWith(ThreadConfigs) /\ [][NextPending]_vars

\* C20: after any sequence of enqueue, resolveOne and rejectOne the k-th
\* settlement is that of the k-th enqueued request, so no request is
\* settled twice, and the queue holds the requests enqueued after those in
\* their order; a resolveOne or rejectOne that finds the queue empty settles
\* nothing and leaves the queue empty.
C20_SettledInOrder ==
    [][ /\ \A k \in 1..Len(pendingRequests'.settled) :
               pendingRequests'.settled[k][1] = k
        /\ pendingRequests'.queue =
               [ i \in 1..(pendingRequests'.enqueued - Len(pendingRequests'.settled))
                   |-> Len(pendingRequests'.settled) + i ]
        /\ pendingRequests'.misses # pendingRequests.misses =>
               /\ pendingRequests.queue = << >>
               /\ pendingRequests'.queue = << >>
               /\ pendingRequests'.settled = pendingRequests.settled ]_vars

\* Two of three requests were settled, one each way, a third one waits and
\* a response had come when nothing was waiting.
C20_Witness ==
    /\ pendingRequests.enqueued = 3
    /\ pendingRequests.settled = << << 1, "resolved" >>, << 2, "rejected" >> >>
    /\ pendingRequests.queue = << 3 >>
    /\ pendingRequests.misses = 1

\* C21 as stated: watchResources is issued only once the watchTargets
\* requests of attachDescriptor have completed and, when an add-on is
\* configured, only once the addon manager's sessionStarted has completed.
C21_ResourcesAfterTargetsAndAddon ==
    [][ (ipc' = "watchResources" /\ ipc # "watchResources") =>
            /\ descriptor = "attached"
            /\ ipc \in { "watchTargets", "sessionStarted" }
            /\ config.addon => ipc = "sessionStarted" ]_vars

(***************************************************************************)
(* The tabs of the root actor: listTabs, tabListChanged, tabOpened and the *)
(* onTabOpened handler of start().                                         *)
(***************************************************************************)
MaxListings == 3

\* An attach to a running browser without an add-on, with or without
\* reloadTabs.
TabConfigs ==
    { c \in Configs : /\ c.attach /\ ~c.launch /\ ~c.terminate /\ ~c.addon
                      /\ ~c.clearConsoleOnReload }

SupportedTraits ==
    { tr \in Traits : tr.nativeLogpoints /\ tr.webExtensionAddonConnect }

\* Everything but the tabs and reloadTabs.
besidesTabs ==
    << config, launched, ipc, startPromise, processDescriptorMode, addonsActor,
       firefoxProc, firefoxDebugSocketClosed, stopVars, descriptor,
       adapterThreads, registryVars, engineVars, targetVars, pauseVars,
       resumeVars, breakpointVars, dap, componentVars >>

\* The user opens a tab in the browser.
BrowserOpensTab(tab) ==
    /\ ~firefoxDebugSocketClosed
    /\ tab \notin browserTabs
    /\ browserTabs' = browserTabs \cup { tab }
    /\ UNCHANGED << besidesTabs, reloadTabs, descriptors, root, tabHandler >>

\* The browser announces that its tab list changed: the onTabListChanged
\* handler calls fetchTabs().
TabListChanged ==
    /\ SocketOpen
    /\ root.armed
    /\ root.tabs # browserTabs
    /\ root.subscribed
    /\ root.sent < MaxListings
    /\ root' = [ fetchTabs(root, "tabListChanged") EXCEPT !.armed = FALSE ]
    /\ UNCHANGED << besidesTabs, reloadTabs, descriptors, tabHandler, browserTabs >>

\* The `.then' of the fetchTabs() of onInit, with nothing in it.
thenReloadTabsKept(caller, flag) == flag

\* Line 189: rootActor.fetchTabs().then(() => this.reloadTabs = false).
thenReloadTabs(caller, flag) == IF caller = "init" THEN FALSE ELSE flag

\* onTabOpened up to its first await: that of reload() if reloadTabs is
\* set, else that of attachDescriptor.
onTabOpened(h, early) ==
    IF reloadTabs
    THEN [ h EXCEPT !.pc = "reload", !.reloads = @ + 1, !.first = early ]
    ELSE [ h EXCEPT !.pc = "attachDescriptor", !.first = early ]

\* The tab actors of an answer to listTabs, in the order of the answer.
RECURSIVE TabList(_)
TabList(tabs) ==
    IF tabs = {} THEN << >>
    ELSE LET tab == CHOOSE x \in tabs : \A y \in tabs : x <= y
         IN  << tab >> \o TabList(tabs \ { tab })

\* root.ts lines 62-74: the loop over the tabs of the answer.  A known tab
\* keeps its proxy; for a new one a proxy is made and tabOpened is emitted.
RECURSIVE forEachTab(_, _, _)
forEachTab(list, r, acc) ==
    IF list = << >> THEN acc
    ELSE LET tab == Head(list)
         IN  IF r.proxies[tab] # 0
             THEN forEachTab(Tail(list), r,
                      [ acc EXCEPT !.currentTabs[tab] = r.proxies[tab] ])
             ELSE forEachTab(Tail(list), r,
                      [ acc EXCEPT !.currentTabs[tab] = r.resolved + 1,
                                   !.opened = Append(@, tab) ])

\* The answer handled with a proxy made for every tab, known or not.
processTabsAfresh(r, tabs) ==
    LET none == [ tab \in Tabs |-> 0 ]
        cur  == forEachTab(TabList(tabs), [ r EXCEPT !.proxies = none ],
                    [ currentTabs |-> none, opened |-> << >> ])
    IN  [ r EXCEPT !.proxies = cur.currentTabs, !.tabs = tabs,
                   !.opened = cur.opened, !.closed = << >>,
                   !.pendingTabsRequests = IF @ = << >> THEN @ ELSE Tail(@),
                   !.resolved = IF r.pendingTabsRequests = << >> THEN @ ELSE @ + 1,
                   !.listTabs = @ - 1, !.last = "tabs", !.answer = tabs ]

\* root.ts lines 58-87, part_002 lines 82-108: tabOpened for every tab
\* that is new, tabClosed for every known tab that is not in the answer,
\* the tabs of the answer become the known tabs and the oldest fetchTabs()
\* resolves.
processTabs(r, tabs) ==
    LET cur    == forEachTab(TabList(tabs), r,
                      [ currentTabs |-> [ tab \in Tabs |-> 0 ], opened |-> << >> ])
        known  == TabList({ tab \in Tabs : r.proxies[tab] # 0 })
        closed == SelectSeq(known, LAMBDA tab : cur.currentTabs[tab] = 0)
    IN  [ r EXCEPT !.proxies = cur.currentTabs,
                   !.tabs = { tab \in Tabs : cur.currentTabs[tab] # 0 },
                   !.opened = cur.opened, !.closed = closed,
                   !.pendingTabsRequests = IF @ = << >> THEN @ ELSE Tail(@),
                   !.resolved = IF r.pendingTabsRequests = << >> THEN @ ELSE @ + 1,
                   !.listTabs = @ - 1, !.last = "tabs", !.answer = tabs ]

\* An answer without tabs dropped, with no listTabs to follow.
receiveResponseGivingUp(r, tabs) ==
    IF tabs = {}
    THEN [ r EXCEPT !.listTabs = @ - 1, !.last = "tabs", !.answer = tabs,
                    !.opened = << >>, !.closed = << >> ]
    ELSE processTabs(r, tabs)

\* root.ts lines 39-88, the answer to listTabs: without tabs a timer is set
\* that sends listTabs again after 100 ms, and nothing else happens.
receiveResponse(r, tabs) ==
    IF tabs = {}
    THEN [ r EXCEPT !.listTabs = @ - 1, !.scheduled = @ + 1,
                    !.last = "tabs", !.answer = tabs,
                    !.opened = << >>, !.closed = << >> ]
    ELSE processTabs(r, tabs)

\* The timer of an answer without tabs fires: listTabs is sent again.
RetryListTabs ==
    /\ root.scheduled > 0
    /\ root' = [ root EXCEPT !.scheduled = @ - 1, !.listTabs = @ + 1,
                             !.last = "retry" ]
    /\ UNCHANGED << besidesTabs, reloadTabs, descriptors, tabHandler, browserTabs >>

\* The answer to listTabs in the session: the handler of tabOpened runs
\* for every tab that is new, and the `.then' of the fetchTabs() that
\* resolves.
TabsResponse ==
    /\ SocketOpen
    /\ root.listTabs > 0
    /\ LET r        == receiveResponse(root, browserTabs)
           resolves == r.resolved # root.resolved
           caller   == Head(root.pendingTabsRequests)
       IN  /\ tabHandler' =
                  [ tab \in Tabs |->
                      IF /\ \E i \in 1 .. Len(r.opened) : r.opened[i] = tab
                         /\ root.subscribed
                      THEN onTabOpened(tabHandler[tab], ~root.initResolved)
                      ELSE tabHandler[tab] ]
           /\ root' = [ r EXCEPT
                          !.armed = TRUE,
                          !.initResolved = @ \/ (resolves /\ caller = "init") ]
           /\ reloadTabs' = IF resolves THEN thenReloadTabs(caller, reloadTabs)
                            ELSE reloadTabs
    /\ UNCHANGED << besidesTabs, descriptors, browserTabs >>

\* onTabOpened after `await tabDescriptorActor.reload()' and the delay.
TabReloaded(tab) ==
    /\ SocketOpen
    /\ tabHandler[tab].pc = "reload"
    /\ tabHandler' = [ tabHandler EXCEPT ![tab].pc = "attachDescriptor" ]
    /\ UNCHANGED << besidesTabs, reloadTabs, descriptors, root, browserTabs >>

\* onTabOpened after `await this.attachDescriptor(tabDescriptorActor)': the
\* DescriptorAdapter of the tab exists, watchResources is sent.
TabDescriptorAttached(tab) ==
    /\ SocketOpen
    /\ tabHandler[tab].pc = "attachDescriptor"
    /\ tabHandler' = [ tabHandler EXCEPT ![tab].pc = "watchResources",
                                         ![tab].attached = TRUE ]
    /\ descriptors' = descriptors \cup { 1 + tab }
    /\ UNCHANGED << besidesTabs, reloadTabs, root, browserTabs >>

\* onTabOpened after `await adapter.watcherActor.watchResources(...)'.
TabResourcesWatched(tab) ==
    /\ SocketOpen
    /\ tabHandler[tab].pc = "watchResources"
    /\ tabHandler' = [ tabHandler EXCEPT ![tab].pc = "done" ]
    /\ UNCHANGED << besidesTabs, reloadTabs, descriptors, root, browserTabs >>

NextTabs ==
    \/ Start(TRUE, TRUE, TRUE)
    \/ \E traits \in SupportedTraits : RootInit(traits)
    \/ FetchRootDone(TRUE)
    \/ AttachDescriptorCreated
    \/ AttachDescriptorDone
    \/ WatchResourcesDone
    \/ SocketClosed
    \/ \E tab \in Tabs : BrowserOpensTab(tab)
    \/ TabListChanged
    \/ TabsResponse
    \/ RetryListTabs
    \/ \E tab \in Tabs : TabReloaded(tab)
    \/ \E tab \in Tabs : TabDescriptorAttached(tab)
    \/ \E tab \in Tabs : TabResourcesWatched(tab)

SpecTabs == InitWith(TabConfigs) /\ [][NextTabs]_vars

\* C22: in a session with reloadTabs = true, a tab that is reported before
\* the first tab listing has resolved is reloaded exactly once, before it
\* is attached, and a tab that is reported after the first tab listing has
\* resolved is attached without being reloaded.
C22_FirstListingReloadedOnce ==
    config.reloadTabs =>
        \A tab \in Tabs :
            tabHandler[tab].pc # "none" =>
                /\ tabHandler[tab].reloads = IF tabHandler[tab].first THEN 1 ELSE 0
                /\ tabHandler[tab].attached <=>
                       tabHandler[tab].pc \in { "watchResources", "done" }

\* One tab was there at the first listing and was reloaded and attached,
\* another was opened later and was attached as it was.
C22_Witness ==
    /\ config.reloadTabs
    /\ \E tab, other \in Tabs :
           /\ tabHandler[tab].first /\ tabHandler[tab].reloads = 1
           /\ tabHandler[tab].attached
           /\ ~tabHandler[other].first /\ tabHandler[other].reloads = 0
           /\ tabHandler[other].attached

\* C25 as stated: with the supportsEnableWindowGlobalThreadActors trait the
\* session attaches the parent process descriptor and no tab descriptor, and
\* it neither subscribes to tabOpened and tabListChanged nor calls
\* fetchTabs.
C25_TabsOnlyInLegacyMode ==
    processDescriptorMode = "true" =>
        /\ ~root.subscribed
        /\ root.sent = 0
        /\ \A tab \in Tabs : tabHandler[tab].pc = "none"
        /\ descriptors \subseteq { 1 }

\* C23: a target-destroyed notification for a target actor without a thread
\* adapter in threadsByTargetActorName gives no event to the editor and
\* leaves threadsByTargetActorName, the threads of the descriptor adapter
\* and the registries of descriptors, threads, frames and variables
\* providers as they are.
C23_UnknownTargetIgnored ==
    [][ \A t \in Targets :
          ( /\ engTarget[t] = "alive" /\ engTarget'[t] = "dead"
            /\ descriptor' = descriptor
            /\ t \notin threadsByTargetActorName ) =>
              UNCHANGED << dap, registryVars, adapterThreads, descriptors >> ]_vars

\* The target of a skipped target actor was destroyed while the descriptor
\* is attached and registered.
C23_Witness ==
    /\ descriptor = "attached"
    /\ 1 \in descriptors
    /\ \E t \in Targets :
           /\ engTarget[t] = "dead" /\ tapc[t] = "skipped"
           /\ dap.exited[t] = 0

\* C24: when the descriptor proxy receives descriptor-destroyed, a thread
\* exited event is emitted for every thread of the descriptor's adapter,
\* each of them leaves threadsByTargetActorName and the adapter is disposed
\* and leaves the registry of descriptors; an event of another type changes
\* nothing in the session: no destroyed notification is emitted.
C24_DestroyedCascades ==
    [][ descriptorActor'.event # descriptorActor.event =>
          IF descriptorActor'.event = "descriptor-destroyed"
          THEN /\ \A t \in adapterThreads :
                     /\ dap'.exited[t] = Cap(dap.exited[t])
                     /\ dap'.threadExited[t] = Cap(dap.threadExited[t])
                     /\ t \notin threadsByTargetActorName'
                     /\ t \notin threads'
               /\ descriptor' = "disposed"
               /\ 1 \notin descriptors'
          ELSE UNCHANGED << sessionVars, threads >> ]_vars

\* The descriptor was destroyed while its adapter had a thread.
C24_Witness ==
    /\ descriptorActor.event = "descriptor-destroyed"
    /\ descriptor = "disposed"
    /\ \E t \in Targets : t \in adapterThreads /\ dap.exited[t] = 1

(***************************************************************************)
(* parseConfiguration: reAttach, reloadOnAttach and installAddonInProfile. *)
(* The input is a launch or attach configuration of the editor; the        *)
(* optional booleans are "true", "false" or "undefined".                   *)
(***************************************************************************)
Optional == { "true", "false", "undefined" }

\* The configurations: reAttach is a setting of launch configurations, and
\* installAddonInProfile is a setting of launch configurations of an add-on.
ParserInputs ==
    { cfg \in [ scenario : { "parseConfiguration" },
                request : { "launch", "attach" }, reAttach : Optional,
                reloadOnAttach : Optional,
                addonType : { "none", "webExtension", "addonSdk" },
                installAddonInProfile : Optional ] :
        /\ cfg.request = "attach" => cfg.reAttach = "undefined" /\ cfg.addonType = "none"
        /\ cfg.addonType = "none" => cfg.installAddonInProfile = "undefined" }

\* reloadTabs without the default of a launch with reAttach.
reloadTabsOfDefaultFalse(cfg) ==
    IF cfg.reloadOnAttach # "undefined" THEN cfg.reloadOnAttach ELSE "false"

\* attach.reloadTabs of the parsed configuration.
reloadTabsOf(cfg) ==
    IF cfg.reloadOnAttach # "undefined" THEN cfg.reloadOnAttach
    ELSE IF cfg.request = "launch" THEN "true" ELSE "false"

\* installInProfile that is true unless installAddonInProfile says otherwise.
installInProfileOfDefaultTrue(cfg) ==
    IF cfg.installAddonInProfile # "undefined" THEN cfg.installAddonInProfile
    ELSE "true"

\* addon.installInProfile of the parsed configuration.
installInProfileOf(cfg) ==
    IF cfg.installAddonInProfile # "undefined" THEN cfg.installAddonInProfile
    ELSE IF cfg.reAttach = "true" THEN "false" ELSE "true"

\* parseConfiguration: the rejection, or the parts of the ParsedConfiguration
\* that are there and the two settings.
parseConfiguration(cfg) ==
    LET attach == cfg.request = "attach" \/ cfg.reAttach = "true"
        addon == cfg.addonType # "none"
    IN  IF addon /\ cfg.reAttach = "true" /\ installInProfileOf(cfg) = "true"
        THEN [ returned |-> TRUE,
               rejected |-> "\"installAddonInProfile\" is not available with \"reAttach\"",
               attach |-> FALSE, launch |-> FALSE, addon |-> FALSE,
               reloadTabs |-> "undefined", installInProfile |-> "undefined" ]
        ELSE [ returned |-> TRUE, rejected |-> "",
               attach |-> attach, launch |-> cfg.request = "launch", addon |-> addon,
               reloadTabs |-> IF attach THEN reloadTabsOf(cfg) ELSE "undefined",
               installInProfile |->
                   IF addon THEN installInProfileOf(cfg) ELSE "undefined" ]

\* What the tests of reAttach and reloadOnAttach expect of the parsed
\* configuration `parsed' of the configuration cfg, for the configurations
\* they use (none of them has an add-on).
TestsOfReAttach(cfg, parsed) ==
    cfg.addonType = "none" =>
        /\ (cfg.request = "attach" /\ cfg.reloadOnAttach = "undefined") =>
               /\ parsed.rejected = "" /\ ~parsed.launch /\ ~parsed.addon
               /\ parsed.attach /\ parsed.reloadTabs = "false"
        /\ (cfg.request = "launch" /\ cfg.reAttach = "true"
              /\ cfg.reloadOnAttach = "undefined") =>
               /\ parsed.rejected = "" /\ parsed.attach
               /\ parsed.reloadTabs = "true"
        /\ (cfg.reloadOnAttach # "undefined"
              /\ (cfg.request = "attach" \/ cfg.reAttach = "true")) =>
               /\ parsed.rejected = "" /\ parsed.attach
               /\ parsed.reloadTabs = cfg.reloadOnAttach

\* What the tests of installAddonInProfile expect, for the configurations
\* they use: launches of an add-on without reloadOnAttach.
TestsOfInstallInProfile(cfg, parsed) ==
    (cfg.addonType # "none" /\ cfg.reloadOnAttach = "undefined") =>
        /\ (cfg.reAttach # "true" /\ cfg.installAddonInProfile = "undefined") =>
               parsed.rejected = "" /\ parsed.addon /\ parsed.installInProfile = "true"
        /\ (cfg.reAttach # "true" /\ cfg.installAddonInProfile = "false") =>
               parsed.rejected = "" /\ parsed.addon /\ parsed.installInProfile = "false"
        /\ (cfg.reAttach = "true" /\ cfg.installAddonInProfile = "undefined") =>
               parsed.rejected = "" /\ parsed.addon /\ parsed.installInProfile = "false"
        /\ (cfg.reAttach = "true" /\ cfg.installAddonInProfile = "true") =>
               parsed.rejected =
                   "\"installAddonInProfile\" is not available with \"reAttach\""

\* The configuration of the input is parsed.
ParseConfiguration ==
    /\ input.scenario = "parseConfiguration"
    /\ ~output.returned
    /\ output' = parseConfiguration(input)
    /\ UNCHANGED << sessionVars, threads, lastActiveThreadId, activeThread, nextId,
                    source, descriptorActor, pendingRequests, input, threadActor >>

SpecParser == InitOf(ThreadConfigs, ParserInputs) /\ [][ParseConfiguration]_vars

Parsed == input.scenario = "parseConfiguration" /\ output.returned

DescriptorTypes == { "tab", "process", "webExtension" }

ThreadTypeInputs ==
    [ scenario : { "threadType" }, dtype : DescriptorTypes,
      form : { form \in [ isFallbackExtensionDocument : { FALSE },
                          addonId : { "", "active" }, url : { "in" },
                          targetType : { "frame", "worker", "content_script" },
                          parentInnerWindowId : BOOLEAN,
                          relatedDocumentInnerWindowId : BOOLEAN,
                          contentScriptTarget : BOOLEAN ] : TRUE } ]

\* onTargetAvailable computes the type of the thread of the input's target.
ComputeThreadType ==
    /\ input.scenario = "threadType"
    /\ ~output.returned
    /\ output' = [ returned |-> TRUE, type |-> ThreadType(input.dtype, input.form) ]
    /\ UNCHANGED << sessionVars, threads, lastActiveThreadId, activeThread, nextId,
                    source, descriptorActor, pendingRequests, input, threadActor >>

SpecThreadType ==
    InitOf(ThreadConfigs, ThreadTypeInputs) /\ [][ComputeThreadType]_vars

\* C28: the thread type is contentScript for a tab descriptor whose target
\* actor name contains contentScriptTarget and for a process descriptor
\* whose target has targetType content_script; else backgroundScript for a
\* webExtension descriptor and for a process descriptor whose target has an
\* add-on id; else worker when relatedDocumentInnerWindowId is set; else
\* iframe when parentInnerWindowId is set; else tab.
C28_ThreadTypePrecedence ==
    (input.scenario = "threadType" /\ output.returned) =>
        LET d == input.dtype
            f == input.form
            contentScript ==
                \/ d = "tab" /\ f.contentScriptTarget
                \/ d = "process" /\ f.targetType = "content_script"
            backgroundScript ==
                \/ d = "webExtension"
                \/ d = "process" /\ f.addonId # ""
        IN  /\ contentScript => output.type = "contentScript"
            /\ (~contentScript /\ backgroundScript) =>
                   output.type = "backgroundScript"
            /\ (~contentScript /\ ~backgroundScript
                  /\ f.relatedDocumentInnerWindowId) => output.type = "worker"
            /\ (~contentScript /\ ~backgroundScript
                  /\ ~f.relatedDocumentInnerWindowId /\ f.parentInnerWindowId) =>
                   output.type = "iframe"
            /\ (~contentScript /\ ~backgroundScript
                  /\ ~f.relatedDocumentInnerWindowId /\ ~f.parentInnerWindowId) =>
                   output.type = "tab"

\* A target with both window ids, neither a content script nor of an
\* add-on, got the type worker.
C28_Witness ==
    /\ input.scenario = "threadType" /\ output.returned
    /\ input.dtype = "process" /\ input.form.addonId = ""
    /\ input.form.targetType = "worker"
    /\ input.form.relatedDocumentInnerWindowId /\ input.form.parentInnerWindowId
    /\ output.type = "worker"

(***************************************************************************)
(* sendConsoleMessage.  The input is a console message as the browser      *)
(* sends it: a timer comes with the levels time, timeLog and timeEnd only, *)
(* with the error timerAlreadyExists for time and timerDoesntExist for the *)
(* other two.                                                              *)
(***************************************************************************)
Levels ==
    { "log", "info", "debug", "error", "warn", "clear", "time", "timeLog",
      "timeEnd" }

ConsoleMessages ==
    { m \in [ scenario : { "consoleMessage" }, level : Levels,
              timer : { "none", "running", "timerAlreadyExists", "timerDoesntExist" },
              objects : BOOLEAN, showConsoleCallLocation : BOOLEAN,
              originalLocation : BOOLEAN ] :
        /\ m.level \notin { "time", "timeLog", "timeEnd" } => m.timer = "none"
        /\ m.level = "time" => m.timer \in { "running", "timerAlreadyExists" }
        /\ m.level \in { "timeLog", "timeEnd" } =>
               m.timer \in { "running", "timerDoesntExist" } }

TimerError(m) == m.timer \in { "timerAlreadyExists", "timerDoesntExist" }

\* The start of a timer taken for every message of level time.
timerStartsAnyTime(m) == m.level = "time"

\* Lines 668-671: nothing is shown when a timer starts.
timerStarts(m) == m.level = "time" /\ ~TimerError(m)

\* Lines 673-674.
category(m) ==
    IF m.level = "error" THEN "stderr"
    ELSE IF m.level = "warn" THEN "console" ELSE "stdout"

\* Lines 678-714: the output event of a message that is shown.  The event
\* of a timer error has a text of its own and the category console, the
\* others the rendered arguments, the call location if that is configured,
\* and a reference to the arguments if objects are among them.
outputEvent(m) ==
    IF m.level = "time" /\ m.timer = "timerAlreadyExists"
    THEN [ output |-> "already exists", category |-> "console",
           callLocation |-> FALSE, variablesReference |-> FALSE, source |-> FALSE ]
    ELSE IF m.level \in { "timeLog", "timeEnd" } /\ m.timer = "timerDoesntExist"
    THEN [ output |-> "doesn't exist", category |-> "console",
           callLocation |-> FALSE, variablesReference |-> FALSE, source |-> FALSE ]
    ELSE [ output |-> "arguments", category |-> category(m),
           callLocation |-> m.showConsoleCallLocation,
           variablesReference |-> m.objects, source |-> FALSE ]

\* Line 664: new OutputEvent('\x1b[2J'), the category left to OutputEvent.
ClearScreen ==
    [ output |-> "clear screen", category |-> "default", callLocation |-> FALSE,
      variablesReference |-> FALSE, source |-> FALSE ]

\* sendConsoleMessage up to its return or to `await this.addLocation(...)'.
SendConsoleMessage ==
    /\ input.scenario = "consoleMessage"
    /\ ~output.returned
    /\ output' =
           IF input.level = "clear"
           THEN [ returned |-> TRUE, pc |-> "done", events |-> << ClearScreen >> ]
           ELSE IF timerStarts(input)
           THEN [ returned |-> TRUE, pc |-> "done", events |-> << >> ]
           ELSE [ returned |-> TRUE, pc |-> "addLocation", events |-> << >>,
                  outputEvent |-> outputEvent(input) ]
    /\ UNCHANGED << sessionVars, threads, lastActiveThreadId, activeThread, nextId,
                    source, descriptorActor, pendingRequests, input, threadActor >>

\* sendConsoleMessage after addLocation: the event, with the original
\* location if the source maps gave one, is sent.
ConsoleMessageLocated ==
    /\ input.scenario = "consoleMessage"
    /\ output.returned /\ output.pc = "addLocation"
    /\ output' =
           [ returned |-> TRUE, pc |-> "done",
             events |-> << [ output.outputEvent EXCEPT
                               !.source = input.originalLocation ] >> ]
    /\ UNCHANGED << sessionVars, threads, lastActiveThreadId, activeThread, nextId,
                    source, descriptorActor, pendingRequests, input, threadActor >>

NextConsole == SendConsoleMessage \/ ConsoleMessageLocated

SpecConsole == InitOf(ThreadConfigs, ConsoleMessages) /\ [][NextConsole]_vars

\* C29: once sendConsoleMessage is through, a message of level time without
\* a timer error has given no output event and every other message exactly
\* one; that of level clear is the clear screen output and nothing else,
\* that of a timer error has the category console, and the others have
\* stderr for level error, console for level warn and stdout otherwise.
\* Before that no event was given.
C29_OneOutputPerMessage ==
    (input.scenario = "consoleMessage" /\ output.returned) =>
        IF output.pc # "done" THEN output.events = << >>
        ELSE IF input.level = "time" /\ ~TimerError(input)
        THEN output.events = << >>
        ELSE /\ Len(output.events) = 1
             /\ IF input.level = "clear"
                THEN output.events[1] = ClearScreen
                ELSE /\ output.events[1].output # "clear screen"
                     /\ output.events[1].category =
                            IF TimerError(input) THEN "console"
                            ELSE IF input.level = "error" THEN "stderr"
                            ELSE IF input.level = "warn" THEN "console"
                            ELSE "stdout"

\* The message of a timer that exists already was shown.
C29_Witness ==
    /\ input.scenario = "consoleMessage" /\ output.returned
    /\ input.level = "time" /\ input.timer = "timerAlreadyExists"
    /\ output.pc = "done" /\ Len(output.events) = 1
    /\ output.events[1].category = "console"

\* C30 as stated: for one thread the events follow the order of the thread
\* states.  When the stopped event of a pause is sent, no handler of an
\* earlier resumed state has its continued event still to send, and when the
\* disposal of the pause-lifetime adapters of a resume finishes, the thread
\* has no frame adapters of a later pause.
C30_EventsInThreadStateOrder ==
    [][ \A t \in Targets :
          /\ dap'.stopped[t] # dap.stopped[t] => rpc[t] = "idle"
          /\ (rpc[t] = "disposing" /\ rpc'[t] = "continue") =>
                 \A f \in frames : f[1] = t => f[2] <= rinfo[t].epoch ]_vars

\* C31 as stated: once the promise of start() is rejected, no attachDescriptor
\* and no watchResources request is issued any more, in the step of the
\* rejection or later, and the promise stays rejected.
C31_NothingAfterRejection ==
    [][ /\ startPromise = "rejected" => startPromise' = "rejected"
        /\ startPromise' = "rejected" =>
               ~( /\ ipc' # ipc
                  /\ ipc' \in { "attachDescriptor", "watchResources" } ) ]_vars

\* C32: without terminate, stop() sends no kill signal, installs no
\* terminator add-on, removes no temporary directory and calls disconnect
\* once, when it starts; with terminate, the temporary directories are
\* removed only when the debug socket has closed and disconnect is called
\* only when it has not.
C32_StopByTerminate ==
    [][ IF ~config.terminate
        THEN /\ stopLog'.kill = 0 /\ stopLog'.install = 0 /\ stopLog'.remove = 0
             /\ stopLog'.disconnect = IF spc' = "idle" THEN 0 ELSE 1
        ELSE /\ stopLog'.remove # stopLog.remove => firefoxDebugSocketClosed
             /\ stopLog'.disconnect # stopLog.disconnect =>
                    ~firefoxDebugSocketClosed ]_vars

\* A stop() without terminate is over, with one disconnect, in a session
\* that has an addons actor and an open descriptor.
C32_Witness ==
    /\ ~config.terminate /\ spc = "done"
    /\ addonsActor /\ descriptor = "attached"
    /\ stopLog.disconnect = 1 /\ stopLog.install = 0

(***************************************************************************)
(* The gates of the pause handler, one after the other.  The pauses are    *)
(* all at the position of the breakpoint: in the source with the           *)
(* breakpoint, in that source while it is skipped, with another reason,    *)
(* without breakpoint actors, and in a source without a path.              *)
(***************************************************************************)
MaxGatePauses == 2

GatePauseEvents ==
    { [ NoPause EXCEPT !.why = "breakpoint", !.actors = TRUE,
                       !.where = [ actor |-> "app", pos |-> 1 ] ],
      [ NoPause EXCEPT !.why = "breakpoint", !.actors = TRUE,
                       !.where = [ actor |-> "skipped", pos |-> 1 ] ],
      [ NoPause EXCEPT !.why = "debuggerStatement", !.actors = TRUE,
                       !.where = [ actor |-> "app", pos |-> 1 ] ],
      [ NoPause EXCEPT !.why = "breakpoint",
                       !.where = [ actor |-> "app", pos |-> 1 ] ],
      [ NoPause EXCEPT !.why = "breakpoint", !.actors = TRUE,
                       !.where = [ actor |-> "eval", pos |-> 1 ] ],
      [ NoPause EXCEPT !.why = "exception", !.start = "app",
                       !.where = [ actor |-> "app", pos |-> 1 ] ] }

NextGates ==
    \/ StartSteps({ TRUE }, ProcessModeTraits, { TRUE })
    \/ SocketClosed
    \/ TargetSteps(Targets, PageForms)
    \/ ThreadSteps(Targets, GatePauseEvents, MaxGatePauses)
    \/ ExceptionSteps(Targets)
    \/ EditorSteps(Targets, 1 .. MaxHitLimit)

SpecGates == InitWith(ThreadConfigs) /\ [][NextGates]_vars

\* The handler of the pause of target t passes the gates in this step.
AtGates(t) == ppc[t] = "getAdapter" /\ ppc'[t] # "getAdapter"

\* C33: a pause whose source is blackboxed, a pause whose reason is not
\* breakpoint or that has no breakpoint actors, and a pause in a source
\* without a path leave the hit count of the breakpoint as it is.
C33_UncountedPauses ==
    [][ \A t \in Targets :
          ( /\ AtGates(t)
            /\ \/ pz'[t].blackBoxed
               \/ pev[t].why # "breakpoint"
               \/ ~pev[t].actors
               \/ SourceAdapter(pev[t].where.actor).path = "" ) =>
              breakpointInfo' = breakpointInfo ]_vars

\* A pause at the breakpoint in the skipped source was resumed while the
\* breakpoint has a hit limit and has counted nothing.
C33_Witness ==
    \E t \in Targets :
        /\ pz[t].blackBoxed /\ pz[t].resumes = 1
        /\ breakpointInfo.verified /\ breakpointInfo.hitLimit > 0
        /\ breakpointInfo.hitCount = 0
        /\ epoch[t] = 1 /\ ppc[t] = "idle"

\* C34: when the lookup of the source adapter of the pausing frame fails,
\* neither gate resumes the thread or counts the pause, and the handler goes
\* on from line 591: a pause that is no exception has its reason recorded
\* and its stopped event sent, an exception goes to the check of its start
\* frame.
C34_LookupFailureSurfaces ==
    [][ \A t \in Targets :
          (AtGates(t) /\ ~pz'[t].found) =>
              /\ resumeReq' = resumeReq
              /\ breakpointInfo' = breakpointInfo
              /\ pz'[t].resumes = 0
              /\ IF pev[t].why = "exception"
                 THEN ppc'[t] = "fetchFrames" /\ dap' = dap
                 ELSE /\ threadAdapter'[t].threadPausedReason = pev[t].why
                      /\ dap'.stopped[t] = dap.stopped[t] + 1
                      /\ pz'[t].stops = 1 ]_vars

\* The lookup failed for a pause at the breakpoint, which was surfaced
\* without having been counted.
C34_Witness ==
    \E t \in Targets :
        /\ ~pz[t].found /\ pz[t].stops = 1 /\ pz[t].resumes = 0
        /\ threadAdapter[t].threadPausedReason = "breakpoint"
        /\ breakpointInfo.verified /\ breakpointInfo.hitLimit > 0
        /\ breakpointInfo.hitCount = 0
        /\ dap.stopped[t] = 1

\* C35: a session whose connection to the browser succeeded has sent the
\* initialized event once, a session that has not connected or whose
\* connection failed has sent none, and no thread, stopped, continued or
\* newSource event is sent before it.
C35_InitializedOnceAndFirst ==
    /\ dap.initialized = IF Connected THEN 1 ELSE 0
    /\ \A t \in Targets :
           ( \/ dap.started[t] > 0 \/ dap.exited[t] > 0 \/ dap.stopped[t] > 0
             \/ dap.continued[t] > 0 \/ dap.newSource[t] > 0 ) =>
               dap.initialized = 1

\* Thread, newSource, stopped and continued events were sent in a session
\* that sent initialized once.
C35_Witness ==
    /\ dap.initialized = 1
    /\ \E t \in Targets :
           /\ dap.started[t] = 1 /\ dap.newSource[t] = 1
           /\ dap.stopped[t] > 0 /\ dap.continued[t] > 0


(***************************************************************************)
(* The RootActorProxy by itself: fetchTabs() and the answers to listTabs,  *)
(* with the retry of root.ts and without it as in part_002.                *)
(***************************************************************************)
RootInputs == { [ scenario |-> "root", retry |-> b ] : b \in BOOLEAN }

\* A client of the proxy calls fetchTabs().
ClientFetchTabs ==
    /\ input.scenario = "root"
    /\ root.sent < MaxListings
    /\ root' = fetchTabs(root, "client")
    /\ UNCHANGED << besidesTabs, reloadTabs, descriptors, tabHandler, browserTabs >>

\* The server answers the oldest listTabs request with the given tabs.
ServerAnswers(tabs) ==
    /\ input.scenario = "root"
    /\ root.listTabs > 0
    /\ root' = IF input.retry THEN receiveResponse(root, tabs)
               ELSE processTabs(root, tabs)
    /\ UNCHANGED << besidesTabs, reloadTabs, descriptors, tabHandler, browserTabs >>

NextRoot ==
    \/ ClientFetchTabs
    \/ \E tabs \in SUBSET Tabs : ServerAnswers(tabs)
    \/ RetryListTabs

\* The timer fires, and the server answers with some tabs in the end.
SpecRoot ==
    /\ InitOf(TabConfigs, RootInputs)
    /\ [][NextRoot]_vars
    /\ WF_vars(RetryListTabs)
    /\ SF_vars(\E tabs \in SUBSET Tabs : tabs # {} /\ ServerAnswers(tabs))

\* A step in which the proxy handles an answer to listTabs.
AnswerHandled == root' # root /\ root'.last = "tabs"

\* C36: with the retry, an answer without tabs resolves no fetchTabs()
\* promise, emits neither tabOpened nor tabClosed, leaves the known tabs as
\* they are and schedules exactly one listTabs request; the listTabs
\* requests outstanding or scheduled are always as many as the fetchTabs()
\* promises pending; and every fetchTabs() promise is resolved once the
\* server answers with tabs.
C36_RetryKeepsPromises ==
    /\ []( input.scenario = "root" /\ input.retry =>
             root.listTabs + root.scheduled = Len(root.pendingTabsRequests) )
    /\ [][ ( /\ input.scenario = "root" /\ input.retry
             /\ AnswerHandled /\ root'.answer = {} ) =>
               /\ root'.pendingTabsRequests = root.pendingTabsRequests
               /\ root'.resolved = root.resolved
               /\ root'.opened = << >> /\ root'.closed = << >>
               /\ root'.proxies = root.proxies /\ root'.tabs = root.tabs
               /\ root'.scheduled = root.scheduled + 1
               /\ root'.listTabs = root.listTabs - 1 ]_vars
    /\ \A k \in 1 .. MaxListings :
           ( input.scenario = "root" /\ input.retry /\ root.sent >= k )
               ~> ( root.resolved >= k )

\* Two fetchTabs() are pending, the first answer had no tabs and its
\* listTabs is scheduled again.
C36_Witness ==
    /\ input.scenario = "root" /\ input.retry
    /\ root.last = "tabs" /\ root.answer = {}
    /\ root.scheduled = 1 /\ root.listTabs = 1
    /\ Len(root.pendingTabsRequests) = 2

\* The events of a sequence name every tab of the set exactly once.
EachOnce(events, tabs) ==
    /\ Len(events) = Cardinality(tabs)
    /\ { events[i] : i \in 1 .. Len(events) } = tabs

\* What C37 says of the answer handled in a step.
TabsFollowAnswer ==
    LET known == { tab \in Tabs : root.proxies[tab] # 0 }
    IN  /\ EachOnce(root'.opened, root'.answer \ known)
        /\ EachOnce(root'.closed, known \ root'.answer)
        /\ \A tab \in known \cap root'.answer :
               root'.proxies[tab] = root.proxies[tab]
        /\ { tab \in Tabs : root'.proxies[tab] # 0 } = root'.answer
        /\ root'.tabs = root'.answer

\* C37 as stated: for every answer to listTabs, tabOpened is emitted exactly
\* once for each tab of the answer that was not known, tabClosed exactly
\* once for each known tab that the answer lacks, a known tab keeps its
\* proxy, and afterwards the known tabs are exactly those of the answer.
C37_AnyAnswer ==
    [][ input.scenario = "root" /\ AnswerHandled => TabsFollowAnswer ]_vars

\* C37 amended: the same for every answer that has tabs, and for the answers
\* without tabs where the proxy has no retry.
C37_AnswerWithTabs ==
    [][ ( /\ input.scenario = "root" /\ AnswerHandled
          /\ input.retry => root'.answer # {} ) => TabsFollowAnswer ]_vars

\* The third answer with tabs: a tab of the first answer still has its
\* proxy, and a tab that an answer in between brought is closed.
C37_Witness ==
    /\ input.scenario = "root" /\ input.retry
    /\ root.last = "tabs" /\ root.resolved = 3
    /\ root.proxies[2] = 1
    /\ root.closed = << 1 >>


(***************************************************************************)
(* The ThreadActorProxy of part_002: setBreakpoint, fetchSources and       *)
(* fetchStackFrames, and the responses of the thread actor.                *)
(***************************************************************************)
MaxThreadCalls == 2

ThreadActorInputs == { [ scenario |-> "threadActor" ] }

\* connection.sendRequest: the request goes to the server.  promise: the
\* promise that the call which sends the request returns.
sendRequest(a, type, promise) ==
    [ a EXCEPT !.requests = Append(@, [ type |-> type, promise |-> promise ]) ]

\* Lines 263-268.
setBreakpoint(a) ==
    LET p == enqueue(a.pendingSetBreakpointRequests)
    IN  sendRequest([ a EXCEPT !.pendingSetBreakpointRequests = p ],
                    "setBreakpoint", << "setBreakpoint", p.enqueued >>)

\* Lines 270-275.
fetchSources(a) ==
    LET p == enqueue(a.pendingSourceRequests)
    IN  sendRequest([ a EXCEPT !.pendingSourceRequests = p ],
                    "sources", << "fetchSources", p.enqueued >>)

\* Lines 277-282: the request that is sent has the type `sources'.
fetchStackFrames(a) ==
    LET p == enqueue(a.pendingFrameRequests)
    IN  sendRequest([ a EXCEPT !.pendingFrameRequests = p ],
                    "sources", << "fetchStackFrames", p.enqueued >>)

\* The responses of the thread actor that match a request of a type.
ResponsesTo(type) ==
    CASE type = "setBreakpoint" -> { "actualLocation", "noScript", "noCodeAtLineColumn" }
      [] type = "sources"       -> { "sources" }
      [] type = "frames"        -> { "frames" }

\* The promise that a response settles: the oldest of its queue.
Oldest(a, name, queue) ==
    IF Len(a[queue].queue) > 0 THEN { << name, Head(a[queue].queue) >> } ELSE {}

\* Lines 337-357 of receiveResponse.  req: the request that the response
\* answers.
receiveThreadResponse(a, response, req) ==
    LET settles(name, queue) ==
            { << promise, req.promise >> : promise \in Oldest(a, name, queue) }
    IN  CASE response = "actualLocation" ->
               [ a EXCEPT !.pendingSetBreakpointRequests = resolveOne(@),
                          !.settledBy = @ \cup settles("setBreakpoint",
                                            "pendingSetBreakpointRequests") ]
          [] response \in { "noScript", "noCodeAtLineColumn" } ->
               [ a EXCEPT !.pendingSetBreakpointRequests = rejectOne(@),
                          !.settledBy = @ \cup settles("setBreakpoint",
                                            "pendingSetBreakpointRequests") ]
          [] response = "sources" ->
               [ a EXCEPT !.pendingSourceRequests = resolveOne(@),
                          !.settledBy = @ \cup settles("fetchSources",
                                            "pendingSourceRequests") ]
          [] response = "frames" ->
               [ a EXCEPT !.pendingFrameRequests = resolveOne(@),
                          !.settledBy = @ \cup settles("fetchStackFrames",
                                            "pendingFrameRequests") ]

threadActorRest ==
    << sessionVars, threads, lastActiveThreadId, activeThread, nextId, source,
       descriptorActor, pendingRequests, input, output >>

SetBreakpoint ==
    /\ input.scenario = "threadActor"
    /\ threadActor.pendingSetBreakpointRequests.enqueued < MaxThreadCalls
    /\ threadActor' = setBreakpoint(threadActor)
    /\ UNCHANGED threadActorRest

FetchSources ==
    /\ input.scenario = "threadActor"
    /\ threadActor.pendingSourceRequests.enqueued < MaxThreadCalls
    /\ threadActor' = fetchSources(threadActor)
    /\ UNCHANGED threadActorRest

FetchStackFrames ==
    /\ input.scenario = "threadActor"
    /\ threadActor.pendingFrameRequests.enqueued < MaxThreadCalls
    /\ threadActor' = fetchStackFrames(threadActor)
    /\ UNCHANGED threadActorRest

\* The thread actor answers its oldest request with a response that
\* matches the type of the request.
ThreadActorResponds(response) ==
    /\ threadActor.requests # << >>
    /\ LET req == Head(threadActor.requests)
       IN  /\ response \in ResponsesTo(req.type)
           /\ threadActor' =
                  receiveThreadResponse(
                      [ threadActor EXCEPT !.requests = Tail(@) ], response, req)
    /\ UNCHANGED threadActorRest

ThreadResponses ==
    { "actualLocation", "noScript", "noCodeAtLineColumn", "sources", "frames" }

NextThreadActor ==
    \/ SetBreakpoint
    \/ FetchSources
    \/ FetchStackFrames
    \/ \E response \in ThreadResponses : ThreadActorResponds(response)

\* The thread actor answers every request in the end.
SpecThreadActor ==
    /\ InitOf(ThreadConfigs, ThreadActorInputs)
    /\ [][NextThreadActor]_vars
    /\ WF_vars(\E response \in ThreadResponses : ThreadActorResponds(response))

\* The promise with a number of a queue is settled.
Settled(queue, k) ==
    \E i \in 1 .. Len(threadActor[queue].settled) :
        threadActor[queue].settled[i][1] = k

\* C38 as stated: when the thread actor answers every request with the
\* response that matches the type of the request, every promise of
\* fetchStackFrames, fetchSources and setBreakpoint is settled in the end,
\* and by the response to its own request.
C38_SettledByOwnResponse ==
    /\ []( \A e \in threadActor.settledBy : e[1] = e[2] )
    /\ \A queue \in { "pendingSetBreakpointRequests", "pendingSourceRequests",
                      "pendingFrameRequests" } :
           \A k \in 1 .. MaxThreadCalls :
               ( threadActor[queue].enqueued >= k ) ~> Settled(queue, k)


\* C39: in every reachable state the keys of threadsByTargetActorName are
\* exactly the target actors of the threads for which thread started was
\* emitted and thread exited was not yet emitted.
C39_MapHoldsLiveThreads ==
    \A t \in Targets :
        t \in threadsByTargetActorName <=>
            ( dap.started[t] > 0 /\ dap.exited[t] = 0 )

\* A thread was announced and left the map with its exited event, and the
\* descriptor is gone as well.
C39_Witness ==
    \E t \in Targets :
        /\ dap.started[t] = 1 /\ dap.exited[t] = 1
        /\ t \notin threadsByTargetActorName
        /\ descriptor = "disposed"


(***************************************************************************)
(* stop() in sessions of every kind: attached or launched, detached or     *)
(* not, with and without terminate.                                        *)
(***************************************************************************)
StopConfigs ==
    { c \in Configs : ~c.reloadTabs /\ ~c.addon /\ ~c.clearConsoleOnReload }

NextStop ==
    \/ StartSteps(BOOLEAN, SupportedTraits, BOOLEAN)
    \/ SocketClosed
    \/ FirefoxProcExit
    \/ StopSteps

SpecStop == InitWith(StopConfigs) /\ [][NextStop]_vars

\* C40: the terminate signal is sent only to a browser process that the
\* session launched itself, not detached, and whose exit was not observed
\* yet; when there is no such process (it exited, or the session attached
\* or launched detached) stop() sends no signal and takes the way of the
\* terminator add-on, and that only if the debug socket is still open and
\* there is an addons actor.
C40_KillOnlyOwnLiveProcess ==
    [][ /\ stopLog'.kill # stopLog.kill =>
               /\ spc = "idle"
               /\ launched /\ ~config.detached /\ firefoxProc
        /\ ( spc = "idle" /\ spc' # "idle" /\ ~firefoxProc ) =>
               /\ stopLog'.kill = stopLog.kill
               /\ spc' = "installing" <=>
                      ( /\ config.terminate
                        /\ ~firefoxDebugSocketClosed /\ addonsActor )
        /\ ( spc = "idle" /\ spc' = "installing" ) => ~firefoxProc
        /\ stopLog'.install # stopLog.install => stopLog.kill = 0 ]_vars

\* A detached launch was stopped: the terminator add-on was installed and
\* no signal was sent.
C40_Witness ==
    /\ config.terminate /\ config.detached /\ launched
    /\ spc = "done"
    /\ stopLog.install = 1 /\ stopLog.kill = 0

=============================================================================
